---- MODULE Spec2Model ----
(***************************************************************************)
(* Model of django-slack: the namespaced key-value store                   *)
(* (slack/models/keyvalue.py) and, of slack/slack.py, the access check of  *)
(* the Slack views, the dispatch of a command text to its handler with the *)
(* argument parser, and the responses and attachments.                     *)
(*                                                                         *)
(* Strings the code takes apart (namespaces, command texts) are sequences  *)
(* of one-letter strings; all other strings are opaque.                    *)
(***************************************************************************)
EXTENDS Integers, Sequences, FiniteSets, TLC

(***************************************************************************)
(* Bounds and input sets                                                   *)
(***************************************************************************)
\* most rows the KeyValuePair table holds
MaxRows == 2

None == "<None>"
\* None and True where the code expects a string it takes apart
NoneStr == <<"None">>
TrueStr == <<"True">>
\* None where the code expects one of RAISE, CLEAR, UPDATE
NoneAction == 0 - 1
\* a form field the payload does not carry
Missing == "<missing>"
\* python's True, the "every team" entry of SLACK_ACCESS
PyTrue == "<True>"

slack == <<"s", "l", "a", "c", "k">>
token == <<"t", "o", "k", "e", "n">>
DefaultSeparator == <<":", ":">>
\* the default namespace ""
Root == <<>>
NsSlack == slack
NsSlackToken == slack \o DefaultSeparator \o token
NsSlackTokenA == NsSlackToken \o DefaultSeparator \o <<"a">>

\* the namespaces that can have a record
Namespaces == {Root, NsSlack, NsSlackToken, NsSlackTokenA}
\* keys of the store; the same strings are the tokens of requests
Keys == {"k1", "k2"}
Tokens == Keys
\* values of the store
Values == {"T1", "true"}
\* team ids of requests
Teams == {"T1", "T2"}

RAISE == 0
CLEAR == 1
UPDATE == 2

\* longest command text
MaxTextLen == 4
\* the characters of command texts
Chars == {"e", "E", "v", "u", "h", " ", "-"}
\* the lower-case letters of [a-zA-Z]
ascii_lowercase ==
    {"a", "b", "c", "d", "e", "f", "g", "h", "i", "j", "k", "l", "m",
     "n", "o", "p", "q", "r", "s", "t", "u", "v", "w", "x", "y", "z"}
\* the characters [a-zA-Z] of the texts and of the names of attributes
Alpha == ascii_lowercase \cup {"E", "V"}
Texts == UNION {[1..n -> Chars] : n \in 0..MaxTextLen}

Range(s) == {s[i] : i \in DOMAIN s}

\* python dicts are functions; d1.update(d2)
DictUpdate(d1, d2) ==
    [k \in (DOMAIN d1) \cup (DOMAIN d2) |-> IF k \in DOMAIN d2 THEN d2[k] ELSE d1[k]]

EmptyDict == [k \in {} |-> None]
\* None where the code expects a dict to iterate
NoneDict == <<[none |-> TRUE]>>

\* outcome of a call: a returned value or a raised exception
Ok(v) == [kind |-> "ok", val |-> v]
Raise(e) == [kind |-> "raise", val |-> e]

(***************************************************************************)
(* State                                                                   *)
(***************************************************************************)
VARIABLES
    segments,      \* KeyValueStore table: the namespaces that have a record
    pairs,         \* KeyValuePair table: per segment, its rows in id order
    kvs,           \* the segment object the caller holds: its namespace
                   \* followed by those of the linked _parent objects
    SLACK_ACCESS,  \* settings.SLACK_ACCESS
    last,          \* the last call and its outcome
    table,         \* KeyValueStore table: the number of records per namespace
    calls,         \* per process, its call of a global method in flight
    text,          \* slack_text of the request the view object is made for
    heap           \* the lists, attachments and responses the caller has made

vars == <<segments, pairs, kvs, SLACK_ACCESS, last, table, calls, text, heap>>

\* no list, attachment or response made
NoHeap == [lists |-> <<>>, attachments |-> <<>>, responses |-> <<>>]

\* most processes that call the store at the same time
MaxProcs == 2
Procs == 1..MaxProcs

\* the table that holds one record for each of the namespaces segs: the
\* calls of one process retrieve before they create
TableOf(segs) == [ns \in Namespaces |-> IF ns \in segs THEN 1 ELSE 0]

\* a process that is in no call
Idle == [pc |-> "idle", result |-> Ok(None)]

NoKvs == <<>>

\* no rows anywhere
NoPairs == [ns \in Namespaces |-> <<>>]

\* number of rows of the KeyValuePair table
TotalRows(p) ==
    Len(p[Root]) + Len(p[NsSlack]) + Len(p[NsSlackToken]) + Len(p[NsSlackTokenA])

(***************************************************************************)
(* KeyValueStoreBase.parent_namespace                                      *)
(***************************************************************************)
\* positions at which sep occurs in s
Occurrences(s, sep) ==
    {i \in 1..(Len(s) - Len(sep) + 1) : SubSeq(s, i, i + Len(sep) - 1) = sep}

\* variant: the namespace is split at the first occurrence
parent_namespace_first(namespace, hierarchy_separator) ==
    LET occ == Occurrences(namespace, hierarchy_separator) IN
    IF occ = {} THEN NoneStr
    ELSE LET i == CHOOSE j \in occ : \A m \in occ : j <= m
         IN SubSeq(namespace, 1, i - 1)

\* namespace.rsplit(hierarchy_separator, 1)[-2], None on IndexError
parent_namespace(namespace, hierarchy_separator) ==
    LET occ == Occurrences(namespace, hierarchy_separator) IN
    IF occ = {} THEN NoneStr
    ELSE LET i == CHOOSE j \in occ : \A m \in occ : m <= j
         IN SubSeq(namespace, 1, i - 1)

(***************************************************************************)
(* Backend methods                                                         *)
(***************************************************************************)
\* keyvaluepair_set.get(key=key) on the rows p of the segment ns: the
\* position of the one row with the key, or the exception of QuerySet.get
_item(p, ns, key) ==
    LET idx == {i \in DOMAIN p[ns] : p[ns][i].key = key} IN
    IF idx = {} THEN Raise("DoesNotExist")
    ELSE IF Cardinality(idx) > 1 THEN Raise("MultipleObjectsReturned")
    ELSE Ok(CHOOSE i \in idx : TRUE)

_create_item(p, ns, key, value) ==
    [p EXCEPT ![ns] = Append(@, [key |-> key, value |-> value])]

_all_items(p, ns) == p[ns]

\* cls.objects.get(_namespace=namespace) on the table tbl
_kvs_retrieve(tbl, namespace) ==
    IF tbl[namespace] = 0 THEN Raise("DoesNotExist")
    ELSE IF tbl[namespace] > 1 THEN Raise("MultipleObjectsReturned")
    ELSE Ok(namespace)

\* variant: _namespace is not declared unique
_kvs_create_not_unique(tbl, namespace) ==
    [result |-> Ok(namespace), table |-> [tbl EXCEPT ![namespace] = @ + 1]]

\* new_segment.save(): the insert fails when the table has a record with
\* this _namespace (unique=True)
_kvs_create(tbl, namespace) ==
    IF tbl[namespace] > 0
    THEN [result |-> Raise("IntegrityError"), table |-> tbl]
    ELSE [result |-> Ok(namespace), table |-> [tbl EXCEPT ![namespace] = @ + 1]]

(***************************************************************************)
(* Dict interface of a segment object; c is the object's chain of          *)
(* namespaces (its own, then its _parent's, ...), p the rows               *)
(***************************************************************************)
\* KeyValueStoreBase.parent, NullKeyValueStore.parent: the empty chain is
\* that of the NullKeyValueStore, which is its own parent
parent(c) == IF c = <<>> THEN c ELSE Tail(c)

\* variant: the segment itself is not counted
height_of_parents(c) == IF c = <<>> THEN 0 ELSE Len(c) - 1

\* KeyValueStoreBase.height, NullKeyValueStore.height
RECURSIVE height(_)
height(c) == IF c = <<>> THEN 0 ELSE 1 + height(parent(c))

\* variant: a miss in the segment itself is not looked up in the parent
getitem_local_only(p, c, key) ==
    LET item == _item(p, c[1], key) IN
    IF item.kind = "raise" THEN Raise("KeyError")
    ELSE Ok(p[c[1]][item.val].value)

RECURSIVE __getitem__(_, _, _)
__getitem__(p, c, key) ==
    LET item == _item(p, c[1], key) IN
    IF item.kind = "raise"
    THEN IF Len(c) = 1 THEN Raise("KeyError")
         ELSE __getitem__(p, Tail(c), key)
    ELSE Ok(p[c[1]][item.val].value)

\* variant: a key the parent holds and the segment does not is set in the parent
setitem_write_through(p, c, key, value) ==
    LET item == _item(p, c[1], key) IN
    IF item.kind = "raise"
    THEN IF Len(c) > 1 /\ _item(p, c[2], key).kind = "ok"
         THEN [p EXCEPT ![c[2]][_item(p, c[2], key).val].value = value]
         ELSE _create_item(p, c[1], key, value)
    ELSE [p EXCEPT ![c[1]][item.val].value = value]

\* the rows after self[key] = value
__setitem__(p, c, key, value) ==
    LET item == _item(p, c[1], key) IN
    IF item.kind = "raise"
    THEN _create_item(p, c[1], key, value)
    ELSE [p EXCEPT ![c[1]][item.val].value = value]

\* rows of s without the one at position i
RemoveAt(s, i) == SubSeq(s, 1, i - 1) \o SubSeq(s, i + 1, Len(s))

\* variant: a key the segment does not hold is removed from the parent
delitem_from_parent(p, c, key) ==
    LET item == _item(p, c[1], key) IN
    IF item.kind = "raise"
    THEN IF Len(c) > 1 /\ _item(p, c[2], key).kind = "ok"
         THEN [result |-> Ok(None),
               pairs |-> [p EXCEPT ![c[2]] = RemoveAt(@, _item(p, c[2], key).val)]]
         ELSE [result |-> Raise("KeyError"), pairs |-> p]
    ELSE [result |-> Ok(None),
          pairs |-> [p EXCEPT ![c[1]] = RemoveAt(@, item.val)]]

\* outcome and rows after del self[key]
__delitem__(p, c, key) ==
    LET item == _item(p, c[1], key) IN
    IF item.kind = "raise"
    THEN IF item.val = "DoesNotExist"
         THEN [result |-> Raise("KeyError"), pairs |-> p]
         ELSE [result |-> item, pairs |-> p]
    ELSE [result |-> Ok(None),
          pairs |-> [p EXCEPT ![c[1]] = RemoveAt(@, item.val)]]

RECURSIVE __contains__(_, _, _)
__contains__(p, c, key) ==
    LET item == _item(p, c[1], key) IN
    IF item.kind = "raise"
    THEN IF item.val = "DoesNotExist"
         THEN IF Len(c) > 1 THEN __contains__(p, Tail(c), key) ELSE Ok(FALSE)
         ELSE item
    ELSE Ok(TRUE)

\* KeyValueStoreBase.get
get(p, c, key, default) ==
    LET r == __getitem__(p, c, key) IN
    IF r.kind = "raise" THEN default ELSE r.val

\* variant: every key is counted once
len_distinct(p, c) ==
    Cardinality({p[c[l]][j].key : <<l, j>> \in
                    {x \in (DOMAIN c) \X (1..MaxRows) : x[2] <= Len(p[c[x[1]]])}})

RECURSIVE __len__(_, _)
__len__(p, c) ==
    LET this == Len(_all_items(p, c[1])) IN
    IF Len(c) = 1 THEN this ELSE this + __len__(p, Tail(c))

RECURSIVE keys(_, _)
keys(p, c) ==
    LET this == [i \in DOMAIN p[c[1]] |-> p[c[1]][i].key] IN
    IF Len(c) = 1 THEN this ELSE this \o keys(p, Tail(c))

RECURSIVE values(_, _)
values(p, c) ==
    LET this == [i \in DOMAIN p[c[1]] |-> p[c[1]][i].value] IN
    IF Len(c) = 1 THEN this ELSE this \o values(p, Tail(c))

RECURSIVE items(_, _)
items(p, c) ==
    LET this == [i \in DOMAIN p[c[1]] |-> <<p[c[1]][i].key, p[c[1]][i].value>>] IN
    IF Len(c) = 1 THEN this ELSE this \o items(p, Tail(c))

clear(p, c) == [p EXCEPT ![c[1]] = <<>>]

\* {item.key : item.value for item in rows}: a later row wins
RECURSIVE DictOfRows(_)
DictOfRows(rows) ==
    IF rows = <<>> THEN EmptyDict
    ELSE LET r == rows[Len(rows)] IN
         DictUpdate(DictOfRows(SubSeq(rows, 1, Len(rows) - 1)),
                    [k \in {r.key} |-> r.value])

RECURSIVE as_dict(_, _)
as_dict(p, c) ==
    LET this == DictOfRows(_all_items(p, c[1])) IN
    IF Len(c) = 1 THEN this
    ELSE DictUpdate(this, as_dict(p, Tail(c)))

(***************************************************************************)
(* Global methods; segs is the set of namespaces that have a record        *)
(***************************************************************************)
\* variant: a record of a namespace below the given one counts
kvs_exists_below(segs, namespace) ==
    LET ns == IF namespace = NoneStr THEN Root ELSE namespace IN
    \E n \in segs : Len(n) >= Len(ns) /\ SubSeq(n, 1, Len(ns)) = ns

kvs_exists(segs, namespace) ==
    LET ns == IF namespace = NoneStr THEN Root ELSE namespace IN
    ns \in segs

\* variant: the record of a missing ancestor is created whatever
\* create_if_not_exist says
RECURSIVE kvs_get_create_ancestors(_, _, _, _)
kvs_get_create_ancestors(segs, namespace, hierarchy_separator, create_if_not_exist) ==
    LET ns == IF namespace = NoneStr THEN Root ELSE namespace
        sep == IF hierarchy_separator = TrueStr THEN DefaultSeparator
               ELSE hierarchy_separator
    IN
    IF ns \notin segs /\ ~create_if_not_exist
    THEN [result |-> Raise("DoesNotExist"), segments |-> segs]
    ELSE LET segs1 == segs \cup {ns} IN
         IF sep \in {NoneStr, <<>>}
         THEN [result |-> Ok(<<ns>>), segments |-> segs1]
         ELSE LET pn == parent_namespace(ns, sep) IN
              IF pn = NoneStr
              THEN [result |-> Ok(<<ns>>), segments |-> segs1]
              ELSE LET r == kvs_get_create_ancestors(segs1, pn, sep, TRUE) IN
                   [result |-> Ok(<<ns>> \o r.result.val),
                    segments |-> r.segments]

\* variant: the returned object has no parent, whatever the separator
kvs_get_unlinked(segs, namespace, hierarchy_separator, create_if_not_exist) ==
    LET ns == IF namespace = NoneStr THEN Root ELSE namespace IN
    IF ns \notin segs /\ ~create_if_not_exist
    THEN [result |-> Raise("DoesNotExist"), segments |-> segs]
    ELSE [result |-> Ok(<<ns>>), segments |-> segs \cup {ns}]

\* variant: the parents are linked with the default separator when no
\* separator is given
RECURSIVE kvs_get_always_linked(_, _, _, _)
kvs_get_always_linked(segs, namespace, hierarchy_separator, create_if_not_exist) ==
    LET ns == IF namespace = NoneStr THEN Root ELSE namespace IN
    IF ns \notin segs /\ ~create_if_not_exist
    THEN [result |-> Raise("DoesNotExist"), segments |-> segs]
    ELSE LET segs1 == segs \cup {ns}
             pn == parent_namespace(ns, DefaultSeparator)
         IN
         IF pn = NoneStr
         THEN [result |-> Ok(<<ns>>), segments |-> segs1]
         ELSE LET r == kvs_get_always_linked(segs1, pn, hierarchy_separator,
                                             create_if_not_exist) IN
              IF r.result.kind = "raise" THEN r
              ELSE [result |-> Ok(<<ns>> \o r.result.val), segments |-> r.segments]

\* outcome (the chain of the returned object) and the records afterwards
RECURSIVE kvs_get(_, _, _, _)
kvs_get(segs, namespace, hierarchy_separator, create_if_not_exist) ==
    LET ns == IF namespace = NoneStr THEN Root ELSE namespace
        sep == IF hierarchy_separator = TrueStr THEN DefaultSeparator
               ELSE hierarchy_separator
    IN
    IF ns \notin segs /\ ~create_if_not_exist
    THEN [result |-> Raise("DoesNotExist"), segments |-> segs]
    ELSE LET segs1 == segs \cup {ns} IN
         IF sep \in {NoneStr, <<>>}
         THEN [result |-> Ok(<<ns>>), segments |-> segs1]
         ELSE LET pn == parent_namespace(ns, sep) IN
              IF pn = NoneStr
              THEN [result |-> Ok(<<ns>>), segments |-> segs1]
              ELSE LET r == kvs_get(segs1, pn, sep, create_if_not_exist) IN
                   IF r.result.kind = "raise" THEN r
                   ELSE [result |-> Ok(<<ns>> \o r.result.val),
                         segments |-> r.segments]

\* for key in dct: kvs[key] = dct[key]; dct is given in iteration order
RECURSIVE SetAll(_, _, _)
SetAll(p, c, dct) ==
    IF dct = <<>> THEN p
    ELSE SetAll(__setitem__(p, c, dct[1].key, dct[1].value), c, Tail(dct))

\* variant: without action_if_exists an existing namespace is updated
kvs_update_default_update(segs, p, namespace, dct, action_if_exists) ==
    LET ns == IF namespace = NoneStr THEN Root ELSE namespace
        d == IF dct = NoneDict THEN <<>> ELSE dct
        action == IF action_if_exists = NoneAction THEN UPDATE ELSE action_if_exists
        exists == kvs_exists(segs, ns)
    IN
    IF exists /\ action = RAISE
    THEN [result |-> Raise("RuntimeError"), segments |-> segs, pairs |-> p]
    ELSE LET p1 == IF exists /\ action = CLEAR
                   THEN clear(p, kvs_get(segs, ns, NoneStr, TRUE).result.val)
                   ELSE p
             got == kvs_get(segs, ns, NoneStr, TRUE)
         IN [result |-> got.result,
             segments |-> got.segments,
             pairs |-> SetAll(p1, got.result.val, d)]

\* variant: CLEAR keeps the rows of the namespace
kvs_update_keep_rows(segs, p, namespace, dct, action_if_exists) ==
    LET ns == IF namespace = NoneStr THEN Root ELSE namespace
        d == IF dct = NoneDict THEN <<>> ELSE dct
        action == IF action_if_exists = NoneAction THEN RAISE ELSE action_if_exists
        exists == kvs_exists(segs, ns)
    IN
    IF exists /\ action = RAISE
    THEN [result |-> Raise("RuntimeError"), segments |-> segs, pairs |-> p]
    ELSE LET got == kvs_get(segs, ns, NoneStr, TRUE)
         IN [result |-> got.result,
             segments |-> got.segments,
             pairs |-> SetAll(p, got.result.val, d)]

\* variant: the entries replace the rows of an existing namespace
kvs_update_replace(segs, p, namespace, dct, action_if_exists) ==
    LET ns == IF namespace = NoneStr THEN Root ELSE namespace
        d == IF dct = NoneDict THEN <<>> ELSE dct
        action == IF action_if_exists = NoneAction THEN RAISE ELSE action_if_exists
        exists == kvs_exists(segs, ns)
    IN
    IF exists /\ action = RAISE
    THEN [result |-> Raise("RuntimeError"), segments |-> segs, pairs |-> p]
    ELSE LET got == kvs_get(segs, ns, NoneStr, TRUE)
         IN [result |-> got.result,
             segments |-> got.segments,
             pairs |-> SetAll(clear(p, got.result.val), got.result.val, d)]

\* outcome, records and rows after kvs_update
kvs_update(segs, p, namespace, dct, action_if_exists) ==
    LET ns == IF namespace = NoneStr THEN Root ELSE namespace
        d == IF dct = NoneDict THEN <<>> ELSE dct
        action == IF action_if_exists = NoneAction THEN RAISE ELSE action_if_exists
        exists == kvs_exists(segs, ns)
    IN
    IF exists /\ action = RAISE
    THEN [result |-> Raise("RuntimeError"), segments |-> segs, pairs |-> p]
    ELSE LET p1 == IF exists /\ action = CLEAR
                   THEN clear(p, kvs_get(segs, ns, NoneStr, TRUE).result.val)
                   ELSE p
             got == kvs_get(segs, ns, NoneStr, TRUE)
         IN [result |-> got.result,
             segments |-> got.segments,
             pairs |-> SetAll(p1, got.result.val, d)]

\* variant: the records and rows of the namespaces below go too
kvs_delete_below(segs, p, namespace) ==
    LET ns == IF namespace = NoneStr THEN Root ELSE namespace
        below == {n \in Namespaces : Len(n) >= Len(ns) /\ SubSeq(n, 1, Len(ns)) = ns}
    IN
    IF ns \notin segs THEN [segments |-> segs, pairs |-> p, deleted |-> 0]
    ELSE [segments |-> segs \ below,
          pairs |-> [n \in Namespaces |-> IF n \in below THEN <<>> ELSE p[n]],
          deleted |-> 1 + Len(p[ns])]

\* records and rows after kvs_delete; the rows go with the record (CASCADE);
\* deleted is the number of objects kvs.delete() removes, 0 when it is not called
kvs_delete(segs, p, namespace) ==
    LET ns == IF namespace = NoneStr THEN Root ELSE namespace IN
    IF ns \notin segs THEN [segments |-> segs, pairs |-> p, deleted |-> 0]
    ELSE [segments |-> segs \ {ns}, pairs |-> [p EXCEPT ![ns] = <<>>],
          deleted |-> 1 + Len(p[ns])]

(***************************************************************************)
(* NullKeyValueStore: the outcome of each method                           *)
(***************************************************************************)
NullKeyValueStore__getitem__(key) == Raise("KeyError")

NullKeyValueStore__setitem__(key, value) == Raise("RuntimeError")

NullKeyValueStore__delitem__(key) == Raise("KeyError")

NullKeyValueStore__contains__(key) == Ok(FALSE)

NullKeyValueStore__len__ == Ok(0)

NullKeyValueStore_keys == Ok(<<>>)

NullKeyValueStore_values == Ok(<<>>)

NullKeyValueStore_items == Ok(<<>>)

NullKeyValueStore_get(key, default) == Ok(default)

NullKeyValueStore_clear == Ok(None)

NullKeyValueStore_as_dict == Ok(EmptyDict)

NullKeyValueStore_kvs_update(namespace, dct, action_if_exists) == Raise("RuntimeError")

\* a classmethod declared without cls: the class takes the place of the one
\* parameter, so that a call with an argument is a call with one too many
NullKeyValueStore_kvs_delete(args) ==
    IF Len(args) = 0 THEN Ok(None) ELSE Raise("TypeError")

(***************************************************************************)
(* Requests and the access check (slack.py)                                *)
(***************************************************************************)
\* the form fields the access check and the example functions read
NoData == [token |-> Missing, team_id |-> Missing]

\* variant: the query string of a GET counts as form data
POST_any_method(request) == request.data

\* request.POST: the form data of a POST, empty for any other method
POST(request) == IF request.method = "POST" THEN request.data ELSE NoData

slack_token(request) ==
    IF POST(request).token = Missing THEN Raise("KeyError")
    ELSE Ok(POST(request).token)

slack_tid(request) ==
    IF POST(request).team_id = Missing THEN Raise("KeyError")
    ELSE Ok(POST(request).team_id)

_Http403 == [kind |-> "HttpResponse", status |-> 403, content |-> "access denied"]

SlackResponseText(response_text) == [kind |-> "SlackResponseText", response_text |-> response_text]

SlackResponseText_as_dict(s) == [text |-> s.response_text]

as_json_response(s) ==
    [kind |-> "JsonResponse", status |-> 200, content |-> SlackResponseText_as_dict(s)]

\* the functions the tests wrap with slack_augment, and the view apit
Functions == {"_function_hello_world_text", "_function_hello_world_response", "apit"}

_function_hello_world_text(request) == [kind |-> "str", content |-> "Hello World"]

_function_hello_world_response(request) == SlackResponseText("Hello World")

\* the text of _template_response_1, without its markup characters
_template_response_1 == [text |-> "By default one can write text with Slack markup :smile:"]

apit(slackrq) == [kind |-> "JsonResponse", status |-> 200, content |-> _template_response_1]

Call(function, request) ==
    IF function = "_function_hello_world_text"
    THEN _function_hello_world_text(request)
    ELSE IF function = "_function_hello_world_response"
    THEN _function_hello_world_response(request)
    ELSE apit(request)

\* variant: the team id is read before the table entry is looked at
AccessGranted_team_required(access, request) ==
    LET tok == slack_token(request)
        tid == slack_tid(request)
    IN
    IF tok.kind = "raise" \/ tid.kind = "raise" THEN FALSE
    ELSE IF tok.val \notin DOMAIN access THEN FALSE
    ELSE access[tok.val] \in {PyTrue, tid.val}

\* the try block of wrapped: TRUE iff it ends without return _Http403()
AccessGranted(access, request) ==
    LET tok == slack_token(request) IN
    IF tok.kind = "raise" THEN FALSE
    ELSE IF tok.val \notin DOMAIN access THEN FALSE
    ELSE LET teamid == access[tok.val] IN
         IF teamid # PyTrue
         THEN LET tid == slack_tid(request) IN
              IF tid.kind = "raise" THEN FALSE
              ELSE teamid = tid.val
         ELSE TRUE

\* variant: the function is called before access is checked
wrapped_call_first(access, request, function) ==
    LET response == Call(function, request) IN
    IF ~AccessGranted(access, request)
    THEN [response |-> _Http403, called |-> TRUE]
    ELSE IF response.kind = "SlackResponseText"
         THEN [response |-> as_json_response(response), called |-> TRUE]
         ELSE [response |-> response, called |-> TRUE]

\* variant: what the function returns is the response
wrapped_as_returned(access, request, function) ==
    IF ~AccessGranted(access, request)
    THEN [response |-> _Http403, called |-> FALSE]
    ELSE [response |-> Call(function, request), called |-> TRUE]

\* slack_augment.wrapped: the response and whether function was called
wrapped(access, request, function) ==
    IF ~AccessGranted(access, request)
    THEN [response |-> _Http403, called |-> FALSE]
    ELSE LET response == Call(function, request) IN
         IF response.kind = "SlackResponseText"
         THEN [response |-> as_json_response(response), called |-> TRUE]
         ELSE [response |-> response, called |-> TRUE]

(***************************************************************************)
(* Attachment components, attachments and responses (slack.py). A list is   *)
(* an object of its own: heap.lists holds the lists, and an attachment or   *)
(* response holds the index of its list. An argument is None, one object,   *)
(* a list written out in the call, or a list that is in the heap already.   *)
(***************************************************************************)
Text(text_, pretext) ==
    [class |-> "Text", text |-> text_, pretext |-> IF pretext = None THEN "" ELSE pretext]

Author(name, link, icon) == [class |-> "Author", name |-> name, link |-> link, icon |-> icon]

Title(title, link) == [class |-> "Title", title |-> title, link |-> link]

Image(image, thumb) == [class |-> "Image", image |-> image, thumb |-> thumb]

\* as_dict of a component
Component_as_dict(c) ==
    IF c.class = "Text" THEN [text |-> c.text, pretext |-> c.pretext]
    ELSE IF c.class = "Author"
    THEN [author_name |-> c.name, author_link |-> c.link, author_icon |-> c.icon]
    ELSE IF c.class = "Title" THEN [title |-> c.title, title_link |-> c.link]
    ELSE [image_url |-> c.image, thumb_url |-> c.thumb]

NoneArg == [kind |-> "None"]
Object(x) == [kind |-> "object", val |-> x]
Literal(elems) == [kind |-> "literal", val |-> elems]
ListObject(id) == [kind |-> "list", id |-> id]

\* the heap with one more list
Allocate(h, elems) == [h EXCEPT !.lists = Append(@, elems)]

\* the elements of the list that add extends its own list with
Elements(h, arg) ==
    IF arg.kind = "object" THEN <<arg.val>>
    ELSE IF arg.kind = "literal" THEN arg.val
    ELSE h.lists[arg.id]

\* Attachment(fallback, components)
Attachment__init__(h, fallback, components) ==
    IF components.kind = "list"
    THEN [h EXCEPT !.attachments =
             Append(@, [fallback |-> fallback, components |-> components.id])]
    ELSE [Allocate(h, IF components.kind = "None" THEN <<>> ELSE components.val)
             EXCEPT !.attachments =
                 Append(@, [fallback |-> fallback, components |-> Len(h.lists) + 1])]

\* Attachment.add
Attachment_add(h, a, components) ==
    [h EXCEPT !.lists[h.attachments[a].components] = @ \o Elements(h, components)]

RECURSIVE UpdateAll(_, _)
UpdateAll(thedict, cs) ==
    IF cs = <<>> THEN thedict
    ELSE UpdateAll(DictUpdate(thedict, Component_as_dict(Head(cs))), Tail(cs))

\* variant: a field keeps the value of the first component that has it
RECURSIVE KeepAll(_, _)
KeepAll(thedict, cs) ==
    IF cs = <<>> THEN thedict
    ELSE KeepAll(DictUpdate(Component_as_dict(Head(cs)), thedict), Tail(cs))

Attachment_as_dict_first(h, a) ==
    KeepAll([fallback |-> h.attachments[a].fallback], h.lists[h.attachments[a].components])

\* Attachment.as_dict
Attachment_as_dict(h, a) ==
    UpdateAll([fallback |-> h.attachments[a].fallback], h.lists[h.attachments[a].components])

\* SlackResponseText(response_text, **kwargs): __init__ has no other parameter
SlackResponseText__init__(response_text, kwargs) ==
    IF kwargs # {} THEN Raise("TypeError") ELSE Ok(SlackResponseText(response_text))

\* SlackResponse(text, attachments)
SlackResponse__init__(h, text_, attachments) ==
    IF attachments.kind = "list"
    THEN [h EXCEPT !.responses =
             Append(@, [text |-> text_, attachments |-> attachments.id])]
    ELSE [Allocate(h, IF attachments.kind = "None" THEN <<>> ELSE Elements(h, attachments))
             EXCEPT !.responses =
                 Append(@, [text |-> text_, attachments |-> Len(h.lists) + 1])]

\* variant: the attachments are put before those the response has
SlackResponse_add_first(h, r, attachments) ==
    [h EXCEPT !.lists[h.responses[r].attachments] = Elements(h, attachments) \o @]

\* SlackResponse.add
SlackResponse_add(h, r, attachments) ==
    [h EXCEPT !.lists[h.responses[r].attachments] = @ \o Elements(h, attachments)]

\* SlackResponse.as_dict
SlackResponse_as_dict(h, r) ==
    LET attachments == h.lists[h.responses[r].attachments] IN
    [text |-> h.responses[r].text,
     attachments |-> [i \in DOMAIN attachments |-> Attachment_as_dict(h, attachments[i])]]

(***************************************************************************)
(* argparse, as far as _ArgumentParser and SlackViewBase.parse use it      *)
(* (CPython 3.11): the options a handler declares, the help option every    *)
(* parser has, the positional 'posn' with nargs='*'. Tokens and option      *)
(* strings are sequences of characters.                                     *)
(***************************************************************************)
help == <<"h", "e", "l", "p">>
uppercase == <<"u", "p", "p", "e", "r", "c", "a", "s", "e">>
Dashes == <<"-", "-">>
Digits == {"0", "1", "2", "3", "4", "5", "6", "7", "8", "9"}

StartsWith(s, prefix) ==
    Len(s) >= Len(prefix) /\ SubSeq(s, 1, Len(prefix)) = prefix

\* add_help=True: '-h', '--help'
HelpOption ==
    [flags |-> {<<"-", "h">>, Dashes \o help}, action |-> "help", dest |-> "help"]
\* add_argument('--uppercase', '-u', action='count')
CountOption ==
    [flags |-> {Dashes \o uppercase, <<"-", "u">>}, action |-> "count",
     dest |-> "uppercase"]
\* add_argument('--uppercase', '-u', type=int)
IntOption ==
    [flags |-> {Dashes \o uppercase, <<"-", "u">>}, action |-> "store_int",
     dest |-> "uppercase"]
\* add_argument('--uppercase', '-u', action='version')
VersionOption ==
    [flags |-> {Dashes \o uppercase, <<"-", "u">>}, action |-> "version",
     dest |-> "uppercase"]
\* an option string no option has
NoOption == [flags |-> {}, action |-> "none", dest |-> "none"]

\* the options of a parser on which a handler has declared opts
AllOptions(opts) == opts \cup {HelpOption}

IsOptionString(opts, str) == \E o \in AllOptions(opts) : str \in o.flags
OptionOf(opts, str) == CHOOSE o \in AllOptions(opts) : str \in o.flags

\* actions that take no argument
NoArgs(o) == o.action \in {"count", "help", "version"}

\* int(v), as far as it decides between a value and ValueError
IsInt(v) == v # <<>> /\ \A i \in DOMAIN v : v[i] \in Digits

\* ArgumentParser._get_option_tuples: the options t abbreviates
_get_option_tuples(opts, t) ==
    IF t[2] = "-"
    THEN {[option |-> o, option_string |-> f, explicit_arg |-> NoneStr] :
             <<o, f>> \in {x \in AllOptions(opts) \X UNION {o.flags : o \in AllOptions(opts)} :
                              x[2] \in x[1].flags /\ StartsWith(x[2], t)}}
    ELSE {[option |-> o, option_string |-> f,
           explicit_arg |-> IF f = SubSeq(t, 1, 2) THEN SubSeq(t, 3, Len(t)) ELSE NoneStr] :
             <<o, f>> \in {x \in AllOptions(opts) \X UNION {o.flags : o \in AllOptions(opts)} :
                              /\ x[2] \in x[1].flags
                              /\ x[2] = SubSeq(t, 1, 2) \/ StartsWith(x[2], t)}}

\* ArgumentParser._parse_optional: "A" for a positional, "O" with the option
\* for an option string (NoOption: an unknown one), "E" for an ambiguous one
_parse_optional(opts, t) ==
    IF t = <<>> \/ t[1] # "-" THEN [pat |-> "A"]
    ELSE IF IsOptionString(opts, t)
         THEN [pat |-> "O", option |-> OptionOf(opts, t), option_string |-> t,
               explicit_arg |-> NoneStr]
    ELSE IF Len(t) = 1 THEN [pat |-> "A"]
    ELSE LET tuples == _get_option_tuples(opts, t) IN
         IF Cardinality(tuples) > 1 THEN [pat |-> "E"]
         ELSE IF Cardinality(tuples) = 1
              THEN LET tup == CHOOSE x \in tuples : TRUE IN
                   [pat |-> "O", option |-> tup.option,
                    option_string |-> tup.option_string,
                    explicit_arg |-> tup.explicit_arg]
         ELSE [pat |-> "O", option |-> NoOption, option_string |-> t,
               explicit_arg |-> NoneStr]

\* the pattern of the tokens: '--' is "-", every token after it "A"
Classify(opts, toks) ==
    [i \in DOMAIN toks |->
        IF \E j \in 1..(i - 1) : toks[j] = Dashes THEN [pat |-> "A"]
        ELSE IF toks[i] = Dashes THEN [pat |-> "-"]
        ELSE _parse_optional(opts, toks[i])]

\* _get_values: the first '--' among the argument strings is dropped
RemoveDashes(args) ==
    IF \E i \in DOMAIN args : args[i] = Dashes
    THEN RemoveAt(args, CHOOSE i \in DOMAIN args :
                            args[i] = Dashes /\ \A j \in 1..(i - 1) : args[j] # Dashes)
    ELSE args

\* how parse_args ends: with the namespace, or with SystemExit, _error
\* then being what error() or print_help() has set on the parser, or
\* Missing when neither has run
Parsed(posn, value) == [kind |-> "ok", posn |-> posn, value |-> value]
Exit(_error) == [kind |-> "exit", _error |-> _error]

\* take_action for the options of one argument string, in order; value is
\* what the namespace holds for the declared option (<<>>: None)
RECURSIVE TakeActions(_, _)
TakeActions(acts, value) ==
    IF acts = <<>> THEN [kind |-> "ok", value |-> value]
    ELSE LET a == acts[1] IN
         IF a.option.action = "help" THEN Exit("")
         ELSE IF a.option.action = "version" THEN Exit(Missing)
         ELSE IF a.option.action = "count"
              THEN TakeActions(Tail(acts),
                               IF value = <<>> THEN <<1>> ELSE <<value[1] + 1>>)
         ELSE IF a.args[1] = Dashes
              THEN \* _get_values drops the '--' and converts the strings left
                   TakeActions(Tail(acts), <<[list |-> <<>>]>>)
         ELSE IF IsInt(a.args[1])
              THEN TakeActions(Tail(acts), <<[int |-> a.args[1]]>>)
         ELSE Exit("invalid int value")

\* the while True loop of consume_optional at token j: the options of the
\* argument string with their arguments and the index after them, or the
\* error raised
RECURSIVE Optionals(_, _, _, _, _, _, _)
Optionals(opts, toks, pats, j, option, option_string, explicit_arg) ==
    IF explicit_arg # NoneStr
    THEN IF NoArgs(option) /\ option_string[2] # "-" /\ explicit_arg # <<>>
         THEN LET next == <<"-", explicit_arg[1]>>
                  rest == IF Len(explicit_arg) > 1 THEN Tail(explicit_arg) ELSE NoneStr
              IN IF IsOptionString(opts, next)
                 THEN LET r == Optionals(opts, toks, pats, j, OptionOf(opts, next),
                                         next, rest)
                      IN IF r.kind = "exit" THEN r
                         ELSE [r EXCEPT !.acts = <<[option |-> option, args |-> <<>>]>> \o @]
                 ELSE Exit("ignored explicit argument")
         ELSE IF ~NoArgs(option)
              THEN [kind |-> "ok", stop |-> j + 1,
                    acts |-> <<[option |-> option, args |-> <<explicit_arg>>]>>]
         ELSE Exit("ignored explicit argument")
    ELSE IF NoArgs(option)
         THEN [kind |-> "ok", stop |-> j + 1,
               acts |-> <<[option |-> option, args |-> <<>>]>>]
    ELSE IF j + 1 \in DOMAIN toks /\ pats[j + 1].pat = "A"
         THEN [kind |-> "ok", stop |-> j + 2,
               acts |-> <<[option |-> option, args |-> <<toks[j + 1]>>]>>]
    ELSE Exit("expected one argument")

\* the loop of _parse_known_args from token i on; positionals: 'posn' is
\* still to be consumed; extras: the strings no action took
RECURSIVE Consume(_, _, _, _, _, _, _, _)
Consume(opts, toks, pats, i, positionals, posn, extras, value) ==
    LET O == {j \in DOMAIN toks : j >= i /\ pats[j].pat = "O"} IN
    IF O = {}
    THEN \* consume any positionals following the last Optional
         LET rest == SubSeq(toks, i, Len(toks)) IN
         IF positionals THEN [kind |-> "ok", posn |-> RemoveDashes(rest),
                              extras |-> extras, value |-> value]
         ELSE [kind |-> "ok", posn |-> posn, extras |-> extras \o rest,
               value |-> value]
    ELSE LET next == CHOOSE j \in O : \A k \in O : j <= k
             before == SubSeq(toks, i, next - 1)
             taken == positionals /\ before # <<>>
             posn1 == IF taken THEN RemoveDashes(before) ELSE posn
             extras1 == IF taken THEN extras ELSE extras \o before
             positionals1 == positionals /\ ~taken
         IN IF pats[next].option = NoOption
            THEN Consume(opts, toks, pats, next + 1, positionals1, posn1,
                         Append(extras1, toks[next]), value)
            ELSE LET o == Optionals(opts, toks, pats, next, pats[next].option,
                                    pats[next].option_string, pats[next].explicit_arg)
                 IN IF o.kind = "exit" THEN o
                    ELSE LET t == TakeActions(o.acts, value) IN
                         IF t.kind = "exit" THEN t
                         ELSE Consume(opts, toks, pats, o.stop, positionals1, posn1,
                                      extras1, t.value)

\* parser.parse_args(params) with the positional 'posn' added
parse_args(opts, params) ==
    LET pats == Classify(opts, params) IN
    IF \E i \in DOMAIN pats : pats[i].pat = "E" THEN Exit("ambiguous option")
    ELSE LET r == Consume(opts, params, pats, 1, TRUE, <<>>, <<>>, <<>>) IN
         IF r.kind = "exit" THEN r
         ELSE IF r.extras # <<>> THEN Exit("unrecognized arguments")
         ELSE Parsed(r.posn, r.value)

(***************************************************************************)
(* SlackViewBase: parse and dispatch, with the handlers of                  *)
(* SlackViewExample. A text made by format or join is the sequence of its   *)
(* characters, a fixed part of it being one element.                        *)
(***************************************************************************)
\* str.split(c)
RECURSIVE split(_, _)
split(str, c) ==
    IF \E i \in DOMAIN str : str[i] = c
    THEN LET i == CHOOSE j \in DOMAIN str : str[j] = c /\ \A k \in 1..(j - 1) : str[k] # c
         IN <<SubSeq(str, 1, i - 1)>> \o split(SubSeq(str, i + 1, Len(str)), c)
    ELSE <<str>>

\* the namespace of a successful parse: posn, the value of the declared
\* option if it stores one, and error
Namespace(opts, posn, value) ==
    IF \E o \in opts : o.action \in {"count", "store_int"}
    THEN [error |-> FALSE, posn |-> posn, uppercase |-> value]
    ELSE [error |-> FALSE, posn |-> posn]

\* SlackViewBase.parse on a new parser on which the handler has declared
\* opts: the namespace returned or the exception raised
parse_obj(opts, r) ==
    IF r.kind = "ok" THEN Ok(Namespace(opts, r.posn, r.value))
    ELSE IF r._error = Missing THEN Raise("AttributeError")
    ELSE Ok([error |-> TRUE, errmsg |-> r._error])

parse(opts, remainder) ==
    LET params == split(remainder, " ")
    IN parse_obj(opts, parse_args(opts, IF params = <<<<>>>> THEN <<>> ELSE params))

\* str.lower and str.upper of a character
lower(c) == IF c = "E" THEN "e" ELSE IF c = "V" THEN "v" ELSE c
upper(c) ==
    IF c = "e" THEN "E" ELSE IF c = "v" THEN "V" ELSE IF c = "u" THEN "U"
    ELSE IF c = "h" THEN "H" ELSE c

\* c.join(strs)
RECURSIVE join(_, _)
join(c, strs) ==
    IF strs = <<>> THEN <<>>
    ELSE IF Len(strs) = 1 THEN strs[1]
    ELSE strs[1] \o <<c>> \o join(c, Tail(strs))

\* re.split(r'[^a-zA-Z]', text, maxsplit=1)
re_split(str) ==
    LET N == {i \in DOMAIN str : str[i] \notin Alpha} IN
    IF N = {} THEN <<str>>
    ELSE LET i == CHOOSE j \in N : \A k \in N : j <= k IN
         <<SubSeq(str, 1, i - 1), SubSeq(str, i + 1, Len(str))>>

\* the run_ attributes of SlackViewExample: attribute name after 'run_'
\* and the method it is bound to
echo_ == <<"e", "c", "h", "o">>
version == <<"v", "e", "r", "s", "i", "o", "n">>

\* the run_ methods the class SlackViewExample defines
ClassAttributes ==
    {<<echo_, "run_echo">>,
     <<echo_ \o <<"b">>, "run_echob">>,
     <<<<"s", "h", "o", "w">>, "run_show">>,
     <<version, "run_version">>,
     <<help, "run_help">>}

\* variant: the method is moved to its new name
alias_move(attrs, alias_, original) ==
    {a \in attrs : a[1] \notin {alias_, original}}
        \cup {<<alias_, a[2]>> : a \in {b \in attrs : b[1] = original}}

\* cls.alias(alias, original): setattr(cls, 'run_' + alias, getattr(cls,
\* 'run_' + original)), for an original the class has
alias(attrs, alias_, original) ==
    {a \in attrs : a[1] # alias_}
        \cup {<<alias_, a[2]>> : a \in {b \in attrs : b[1] = original}}

\* the run_ attributes of SlackViewExample after its two aliases: attribute
\* name after 'run_' and the method it is bound to
RunAttributes == alias(alias(ClassAttributes, <<"v">>, version), <<"e">>, echo_)

unknown_command(subcommand, remainder) ==
    Ok(SlackResponseText(<<"unknown subcommand '">> \o subcommand \o <<"'; try 'help'">>))

\* run_echo after parser.run() has returned or raised; an error namespace
\* has no attribute posn
echo(run) ==
    IF run.kind = "raise" THEN run
    ELSE IF run.val.error THEN Raise("AttributeError")
    ELSE LET out == join("-", run.val.posn) IN
         Ok(SlackResponseText(<<"you said: ">> \o
               (IF run.val.uppercase # <<>>
                THEN [i \in DOMAIN out |-> upper(out[i])] ELSE out)))

run_echo(remainder) == echo(parse({CountOption}, remainder))

\* the decorated run_echob
echob(posn) == Ok(SlackResponseText(<<"you said: ">> \o join(":", posn)))

\* inner of the decorator positional_args after parser.run()
positional_args(run) ==
    IF run.kind = "raise" THEN run
    ELSE IF run.val.error THEN Raise("AttributeError")
    ELSE echob(run.val.posn)

run_echob(remainder) == positional_args(parse({}, remainder))

run_show(remainder) ==
    Ok([kind |-> "SlackResponse", response_text |-> <<"Just showing off!">>])

run_version(remainder) == Ok(SlackResponseText(<<"Slack library version 1.5">>))

run_help(remainder) ==
    Ok(SlackResponseText(<<"try the 'echo', 'show' or 'version' subcommands">>))

\* the attributes of a view that are not named run_...: the name and the
\* method or field it is bound to
OtherAttributes ==
    {<<<<"d", "i", "s", "p", "a", "t", "c", "h">>, "dispatch">>,
     <<<<"p", "a", "r", "s", "e">>, "parse">>,
     <<<<"a", "l", "i", "a", "s">>, "alias">>,
     <<<<"a", "s", "_", "v", "i", "e", "w">>, "as_view">>,
     <<<<"r", "e", "q", "u", "e", "s", "t">>, "request">>,
     <<<<"_", "p", "a", "r", "s", "e", "r">>, "_parser">>,
     <<<<"u", "n", "k", "n", "o", "w", "n", "_", "c", "o", "m", "m", "a", "n", "d">>,
       "unknown_command">>}

\* variant: the attribute is looked up under the subcommand alone, without
\* the prefix 'run_'; an attribute that is no handler raises when called
dispatch_any_attribute(str) ==
    LET splt == re_split(str)
        subcommand == splt[1]
        remainder == IF Len(splt) > 1 THEN splt[2] ELSE <<>>
        name == [i \in DOMAIN subcommand |-> lower(subcommand[i])]
        found == {a \in RunAttributes \cup OtherAttributes : a[1] = name}
    IN IF found = {}
       THEN [subcommand |-> subcommand, remainder |-> remainder,
             method |-> "unknown_command",
             result |-> unknown_command(subcommand, remainder)]
       ELSE LET method == (CHOOSE a \in found : TRUE)[2] IN
            [subcommand |-> subcommand, remainder |-> remainder, method |-> method,
             result |-> IF method = "run_echo" THEN run_echo(remainder)
                        ELSE IF method = "run_echob" THEN run_echob(remainder)
                        ELSE IF method = "run_show" THEN run_show(remainder)
                        ELSE IF method = "run_version" THEN run_version(remainder)
                        ELSE IF method = "run_help" THEN run_help(remainder)
                        ELSE Raise("TypeError")]

\* variant: the attribute is looked up under the subcommand as typed
dispatch_as_typed(str) ==
    LET splt == re_split(str)
        subcommand == splt[1]
        remainder == IF Len(splt) > 1 THEN splt[2] ELSE <<>>
        found == {a \in RunAttributes : a[1] = subcommand}
    IN IF found = {}
       THEN [subcommand |-> subcommand, remainder |-> remainder,
             method |-> "unknown_command",
             result |-> unknown_command(subcommand, remainder)]
       ELSE LET method == (CHOOSE a \in found : TRUE)[2] IN
            [subcommand |-> subcommand, remainder |-> remainder, method |-> method,
             result |-> IF method = "run_echo" THEN run_echo(remainder)
                        ELSE IF method = "run_echob" THEN run_echob(remainder)
                        ELSE IF method = "run_show" THEN run_show(remainder)
                        ELSE IF method = "run_version" THEN run_version(remainder)
                        ELSE run_help(remainder)]

\* SlackViewExample(request).dispatch() for the text str: the subcommand,
\* the remainder the parser is made for, the method called and its outcome
dispatch(str) ==
    LET splt == re_split(str)
        subcommand == splt[1]
        remainder == IF Len(splt) > 1 THEN splt[2] ELSE <<>>
        name == [i \in DOMAIN subcommand |-> lower(subcommand[i])]
        found == {a \in RunAttributes : a[1] = name}
    IN IF found = {}
       THEN [subcommand |-> subcommand, remainder |-> remainder,
             method |-> "unknown_command",
             result |-> unknown_command(subcommand, remainder)]
       ELSE LET method == (CHOOSE a \in found : TRUE)[2] IN
            [subcommand |-> subcommand, remainder |-> remainder, method |-> method,
             result |-> IF method = "run_echo" THEN run_echo(remainder)
                        ELSE IF method = "run_echob" THEN run_echob(remainder)
                        ELSE IF method = "run_show" THEN run_show(remainder)
                        ELSE IF method = "run_version" THEN run_version(remainder)
                        ELSE run_help(remainder)]

(***************************************************************************)
(* The parser object of a dispatch: the options declared on it and the     *)
(* number of positionals 'posn' that parse has added to it, with the       *)
(* remainder its run method is made for                                    *)
(***************************************************************************)
NoParser == [options |-> {}, posn |-> 0, remainder |-> <<>>]

\* variant: the parser object of the dispatch before is used again
_parser_kept(previous, remainder) == [previous EXCEPT !.remainder = remainder]

\* SlackViewBase._parser: a new _ArgumentParser(), whatever parser was made before
_parser(previous, remainder) == [options |-> {}, posn |-> 0, remainder |-> remainder]

\* parser.add_argument of an option: argparse refuses an option string that
\* the parser has already
add_argument(P, option) ==
    IF option \in P.options THEN Raise("ArgumentError")
    ELSE Ok([P EXCEPT !.options = @ \cup {option}])

\* parse_args of a parser that has n positionals 'posn' before parse adds
\* one: the positional added last is given no argument string and sets posn
ParsedWith(n, r) ==
    IF n > 0 /\ r.kind = "ok" /\ ~r.val.error THEN Ok([r.val EXCEPT !.posn = <<>>])
    ELSE r

\* parser.parser_run(): the outcome of parse and the parser afterwards
parser_run(P) ==
    [result |-> ParsedWith(P.posn, parse(P.options, P.remainder)),
     parser |-> [P EXCEPT !.posn = @ + 1]]

\* run_echo once it has declared its option
Echo(P, declared) ==
    IF declared.kind = "raise" THEN [result |-> declared, parser |-> P]
    ELSE [result |-> echo(parser_run(declared.val).result), parser |-> parser_run(declared.val).parser]

\* the handler bound to method, called with the parser P
Handler(method, subcommand, P) ==
    IF method = "run_echo" THEN Echo(P, add_argument(P, CountOption))
    ELSE IF method = "run_echob"
    THEN [result |-> positional_args(parser_run(P).result), parser |-> parser_run(P).parser]
    ELSE [result |-> IF method = "run_show" THEN run_show(P.remainder)
                     ELSE IF method = "run_version" THEN run_version(P.remainder)
                     ELSE IF method = "run_help" THEN run_help(P.remainder)
                     ELSE unknown_command(subcommand, P.remainder),
          parser |-> P]

(***************************************************************************)
(* The view that as_view returns: slack_augment around                     *)
(* cls(request).dispatch(), which reads request.slack_text                 *)
(***************************************************************************)
\* no field 'text' in the payload
MissingText == <<Missing>>

\* the em-dash that Slack puts for two dashes, as one character of a text
EmDash == "<em-dash>"

\* str.replace('<em-dash>', '--')
RECURSIVE replace(_)
replace(str) ==
    IF str = <<>> THEN <<>>
    ELSE (IF Head(str) = EmDash THEN Dashes ELSE <<Head(str)>>) \o replace(Tail(str))

\* variant: a payload without text is read as the empty text
slack_text_or_empty(request) ==
    IF "text" \notin DOMAIN POST(request) \/ POST(request).text = MissingText
    THEN Ok(<<>>)
    ELSE Ok(replace(POST(request).text))

\* SlackRequest.slack_text: s.POST['text'].replace(...)
slack_text(request) ==
    IF "text" \notin DOMAIN POST(request) \/ POST(request).text = MissingText
    THEN Raise("KeyError")
    ELSE Ok(replace(POST(request).text))

\* wrapped, after the call of view: what the handler raised, or its response
\* converted
Returned(result) ==
    IF result.kind = "raise" THEN result
    ELSE IF result.val.kind \in {"SlackResponseText", "SlackResponse"}
    THEN Ok(as_json_response(result.val))
    ELSE result

\* view(request) for the text that slack_text gives or the exception it raises
Dispatched(slack_text_) ==
    IF slack_text_.kind = "raise" THEN slack_text_
    ELSE Returned(dispatch(slack_text_.val).result)

\* the view of SlackViewExample.as_view() called with request
as_view(access, request) ==
    IF ~AccessGranted(access, request) THEN Ok(_Http403)
    ELSE Dispatched(slack_text(request))

(***************************************************************************)
(* Inputs                                                                  *)
(***************************************************************************)
NamespaceArgs == {NsSlack, NsSlackToken, NsSlackTokenA}
\* with the default namespace, given as "" or as None
GlobalNamespaceArgs == {NoneStr, Root, NsSlack, NsSlackToken}
\* no dict, and a dict of one entry
GlobalDicts == {NoneDict, <<[key |-> "k1", value |-> "T1"]>>}
SeparatorArgs == {NoneStr, TrueStr}
ActionArgs == {NoneAction, RAISE, CLEAR, UPDATE}

Rows == [key : Keys, value : Values]
\* dicts in iteration order, and None
Dicts ==
    {NoneDict} \cup {<<r>> : r \in Rows}
    \cup {<<[key |-> "k1", value |-> "T1"], [key |-> "k2", value |-> "true"]>>,
          <<[key |-> "k2", value |-> "T1"], [key |-> "k1", value |-> "true"]>>}

\* the table of SlackAPITest
TestAccess == [k \in Tokens |-> IF k = "k1" THEN "T1" ELSE PyTrue]

\* settings.SLACK_ACCESS: token -> team id or True
AccessTables ==
    UNION {[D -> Teams \cup {PyTrue}] : D \in SUBSET Tokens}

Requests ==
    [method : {"GET", "POST"},
     data : [token : Tokens \cup {Missing}, team_id : Teams \cup {Missing}]]

(***************************************************************************)
(* Initial state: empty tables, no object held                             *)
(***************************************************************************)
Init ==
    /\ segments = {}
    /\ pairs = NoPairs
    /\ kvs = NoKvs
    /\ SLACK_ACCESS \in AccessTables
    /\ last = [op |-> "init"]
    /\ table = TableOf({})
    /\ calls = [t \in Procs |-> Idle]
    /\ text \in Texts
    /\ heap = NoHeap

(***************************************************************************)
(* Calls of the global methods                                             *)
(***************************************************************************)
KvsExists(namespace) ==
    /\ last' = [op |-> "kvs_exists", namespace |-> namespace,
                result |-> Ok(kvs_exists(segments, namespace))]
    /\ UNCHANGED <<segments, pairs, kvs, SLACK_ACCESS, table, calls, text, heap>>

\* kvs = KeyValueStore.kvs_get(...); on an exception kvs keeps its value
KvsGet(namespace, hierarchy_separator, create_if_not_exist) ==
    \E r \in {kvs_get(segments, namespace, hierarchy_separator, create_if_not_exist)} :
    /\ segments' = r.segments
    /\ kvs' = IF r.result.kind = "ok" THEN r.result.val ELSE kvs
    /\ last' = [op |-> "kvs_get", namespace |-> namespace,
                hierarchy_separator |-> hierarchy_separator,
                create_if_not_exist |-> create_if_not_exist, result |-> r.result]
    /\ table' = TableOf(segments')
    /\ UNCHANGED <<pairs, SLACK_ACCESS, calls, text, heap>>

KvsUpdate(namespace, dct, action_if_exists) ==
    \E r \in {kvs_update(segments, pairs, namespace, dct, action_if_exists)} :
    /\ TotalRows(r.pairs) <= MaxRows
    /\ segments' = r.segments
    /\ pairs' = r.pairs
    /\ last' = [op |-> "kvs_update", namespace |-> namespace, dct |-> dct,
                action_if_exists |-> action_if_exists, result |-> r.result]
    /\ table' = TableOf(segments')
    /\ UNCHANGED <<kvs, SLACK_ACCESS, calls, text, heap>>

\* an object of a deleted record is not used again
KvsDelete(namespace) ==
    \E r \in {kvs_delete(segments, pairs, namespace)} :
    /\ segments' = r.segments
    /\ pairs' = r.pairs
    /\ kvs' = IF Range(kvs) \subseteq r.segments THEN kvs ELSE NoKvs
    /\ last' = [op |-> "kvs_delete", namespace |-> namespace,
                deleted |-> r.deleted, result |-> Ok(None)]
    /\ table' = TableOf(segments')
    /\ UNCHANGED <<SLACK_ACCESS, calls, text, heap>>

(***************************************************************************)
(* Calls on the held object                                                *)
(***************************************************************************)
GetItem(key) ==
    /\ kvs # NoKvs
    /\ last' = [op |-> "__getitem__", key |-> key,
                result |-> __getitem__(pairs, kvs, key)]
    /\ UNCHANGED <<segments, pairs, kvs, SLACK_ACCESS, table, calls, text, heap>>

\* variant: a key that is not found is set to the default, as dict.setdefault
Get_setdefault(key, default) ==
    /\ kvs # NoKvs
    /\ pairs' = IF __getitem__(pairs, kvs, key).kind = "raise"
                THEN __setitem__(pairs, kvs, key, default) ELSE pairs
    /\ TotalRows(pairs') <= MaxRows
    /\ last' = [op |-> "get", key |-> key,
                result |-> Ok(get(pairs, kvs, key, default))]
    /\ UNCHANGED <<segments, kvs, SLACK_ACCESS, table, calls, text, heap>>

Get(key, default) ==
    /\ kvs # NoKvs
    /\ last' = [op |-> "get", key |-> key,
                result |-> Ok(get(pairs, kvs, key, default))]
    /\ UNCHANGED <<segments, pairs, kvs, SLACK_ACCESS, table, calls, text, heap>>

SetItem(key, value) ==
    /\ kvs # NoKvs
    /\ pairs' = __setitem__(pairs, kvs, key, value)
    /\ TotalRows(pairs') <= MaxRows
    /\ last' = [op |-> "__setitem__", key |-> key, value |-> value,
                result |-> Ok(None)]
    /\ UNCHANGED <<segments, kvs, SLACK_ACCESS, table, calls, text, heap>>

DelItem(key) ==
    /\ kvs # NoKvs
    /\ \E r \in {__delitem__(pairs, kvs, key)} :
       /\ pairs' = r.pairs
       /\ last' = [op |-> "__delitem__", key |-> key, result |-> r.result]
    /\ UNCHANGED <<segments, kvs, SLACK_ACCESS, table, calls, text, heap>>

Contains(key) ==
    /\ kvs # NoKvs
    /\ last' = [op |-> "__contains__", key |-> key,
                result |-> __contains__(pairs, kvs, key)]
    /\ UNCHANGED <<segments, pairs, kvs, SLACK_ACCESS, table, calls, text, heap>>

LenCall ==
    /\ kvs # NoKvs
    /\ last' = [op |-> "__len__", result |-> Ok(__len__(pairs, kvs))]
    /\ UNCHANGED <<segments, pairs, kvs, SLACK_ACCESS, table, calls, text, heap>>

\* list(kvs.keys()), list(kvs.values()), list(kvs.items())
Iterate ==
    /\ kvs # NoKvs
    /\ last' = [op |-> "iterate", keys |-> keys(pairs, kvs),
                values |-> values(pairs, kvs), items |-> items(pairs, kvs),
                len |-> __len__(pairs, kvs)]
    /\ UNCHANGED <<segments, pairs, kvs, SLACK_ACCESS, table, calls, text, heap>>

Clear ==
    /\ kvs # NoKvs
    /\ pairs' = clear(pairs, kvs)
    /\ last' = [op |-> "clear", result |-> Ok(None)]
    /\ UNCHANGED <<segments, kvs, SLACK_ACCESS, table, calls, text, heap>>

AsDict ==
    /\ kvs # NoKvs
    /\ last' = [op |-> "as_dict", result |-> Ok(as_dict(pairs, kvs))]
    /\ UNCHANGED <<segments, pairs, kvs, SLACK_ACCESS, table, calls, text, heap>>

(***************************************************************************)
(* A request to a function wrapped with slack_augment                      *)
(***************************************************************************)
Request(request, function) ==
    \E r \in {wrapped(SLACK_ACCESS, request, function)} :
    /\ last' = [op |-> "request", request |-> request, function |-> function,
                response |-> r.response, called |-> r.called]
    /\ UNCHANGED <<segments, pairs, kvs, SLACK_ACCESS, table, calls, text, heap>>

(***************************************************************************)
(* The users of the key-value store                                        *)
(***************************************************************************)
InitStore == Init /\ SLACK_ACCESS = TestAccess /\ text = <<>>

NextStore ==
    \/ \E ns \in NamespaceArgs : KvsExists(ns)
    \/ \E ns \in NamespaceArgs, sep \in SeparatorArgs, create \in BOOLEAN :
           KvsGet(ns, sep, create)
    \/ \E ns \in NamespaceArgs, dct \in Dicts, a \in ActionArgs :
           KvsUpdate(ns, dct, a)
    \/ \E ns \in NamespaceArgs : KvsDelete(ns)
    \/ \E key \in Keys : GetItem(key)
    \/ \E key \in Keys, default \in {None} : Get(key, default)
    \/ \E key \in Keys, value \in Values : SetItem(key, value)
    \/ \E key \in Keys : DelItem(key)
    \/ \E key \in Keys : Contains(key)
    \/ LenCall
    \/ Iterate
    \/ Clear
    \/ AsDict

SpecStore == InitStore /\ [][NextStore]_vars

(***************************************************************************)
(* The users of the global methods, the default namespace included         *)
(***************************************************************************)
NextGlobal ==
    \/ \E ns \in GlobalNamespaceArgs : KvsExists(ns)
    \/ \E ns \in GlobalNamespaceArgs, sep \in SeparatorArgs, create \in BOOLEAN :
           KvsGet(ns, sep, create)
    \/ \E ns \in GlobalNamespaceArgs, dct \in GlobalDicts, a \in ActionArgs :
           KvsUpdate(ns, dct, a)
    \/ \E ns \in GlobalNamespaceArgs : KvsDelete(ns)

SpecGlobal == InitStore /\ [][NextGlobal]_vars

(***************************************************************************)
(* Calls on a NullKeyValueStore object and on its class                    *)
(***************************************************************************)
NullCall(op, args, result) ==
    /\ last' = [op |-> op, null |-> TRUE, args |-> args, result |-> result]
    /\ UNCHANGED <<segments, pairs, kvs, SLACK_ACCESS, table, calls, text, heap>>

NullGetItem(key) ==
    NullCall("__getitem__", <<key>>, NullKeyValueStore__getitem__(key))

NullSetItem(key, value) ==
    NullCall("__setitem__", <<key, value>>, NullKeyValueStore__setitem__(key, value))

NullDelItem(key) ==
    NullCall("__delitem__", <<key>>, NullKeyValueStore__delitem__(key))

NullContains(key) ==
    NullCall("__contains__", <<key>>, NullKeyValueStore__contains__(key))

NullLen == NullCall("__len__", <<>>, NullKeyValueStore__len__)

NullKeys == NullCall("keys", <<>>, NullKeyValueStore_keys)

NullValues == NullCall("values", <<>>, NullKeyValueStore_values)

NullItems == NullCall("items", <<>>, NullKeyValueStore_items)

NullGet(key, default) ==
    NullCall("get", <<key, default>>, NullKeyValueStore_get(key, default))

NullClear == NullCall("clear", <<>>, NullKeyValueStore_clear)

NullAsDict == NullCall("as_dict", <<>>, NullKeyValueStore_as_dict)

NullKvsUpdate(namespace, dct, action_if_exists) ==
    NullCall("kvs_update", <<namespace, dct, action_if_exists>>,
             NullKeyValueStore_kvs_update(namespace, dct, action_if_exists))

NullKvsDelete(args) ==
    NullCall("kvs_delete", args, NullKeyValueStore_kvs_delete(args))

NextNull ==
    \/ \E key \in Keys : NullGetItem(key)
    \/ \E key \in Keys, value \in Values : NullSetItem(key, value)
    \/ \E key \in Keys : NullDelItem(key)
    \/ \E key \in Keys : NullContains(key)
    \/ NullLen
    \/ NullKeys
    \/ NullValues
    \/ NullItems
    \/ \E key \in Keys, default \in {None} \cup Values : NullGet(key, default)
    \/ NullClear
    \/ NullAsDict
    \/ \E ns \in GlobalNamespaceArgs, dct \in Dicts, a \in ActionArgs :
           NullKvsUpdate(ns, dct, a)
    \/ \E ns \in GlobalNamespaceArgs : NullKvsDelete(<<ns>>)
    \/ NullKvsDelete(<<>>)

SpecNull == InitStore /\ [][NextNull]_vars

(***************************************************************************)
(* Processes that call kvs_get and kvs_delete at the same time: a call of  *)
(* kvs_get is a sequence of queries, one step each                         *)
(***************************************************************************)
ConcurrentNamespaceArgs == {NsSlack, NsSlackToken}

\* the namespaces that have a record in the table tbl
Support(tbl) == {ns \in Namespaces : tbl[ns] > 0}

\* the call c of kvs_get once it has the segment of c.namespace: it returns
\* or goes on with the parent
Obtained(c) ==
    LET chain == Append(c.chain, c.namespace)
        pn == IF c.hierarchy_separator \in {NoneStr, <<>>} THEN NoneStr
              ELSE parent_namespace(c.namespace, c.hierarchy_separator)
    IN IF pn = NoneStr THEN [pc |-> "idle", result |-> Ok(chain)]
       ELSE [c EXCEPT !.pc = "retrieve", !.namespace = pn, !.chain = chain]

CallKvsGet(t, namespace, hierarchy_separator, create_if_not_exist) ==
    /\ calls[t].pc = "idle"
    /\ calls' = [calls EXCEPT ![t] =
                    [pc |-> "retrieve",
                     namespace |-> IF namespace = NoneStr THEN Root ELSE namespace,
                     hierarchy_separator |->
                         IF hierarchy_separator = TrueStr THEN DefaultSeparator
                         ELSE hierarchy_separator,
                     create_if_not_exist |-> create_if_not_exist,
                     chain |-> <<>>]]
    /\ UNCHANGED <<segments, pairs, kvs, SLACK_ACCESS, last, table, text, heap>>

\* try: kvs = cls._kvs_retrieve(namespace); except: if not create: raise
Retrieve(t) ==
    /\ calls[t].pc = "retrieve"
    /\ \E r \in {_kvs_retrieve(table, calls[t].namespace)} :
          calls' = [calls EXCEPT ![t] =
                       IF r.kind = "ok" THEN Obtained(@)
                       ELSE IF ~@.create_if_not_exist
                            THEN [pc |-> "idle", result |-> r]
                            ELSE [@ EXCEPT !.pc = "create"]]
    /\ UNCHANGED <<segments, pairs, kvs, SLACK_ACCESS, last, table, text, heap>>

\* kvs = cls._kvs_create(namespace)
Create(t) ==
    /\ calls[t].pc = "create"
    /\ \E r \in {_kvs_create(table, calls[t].namespace)} :
       /\ table' = r.table
       /\ segments' = Support(r.table)
       /\ calls' = [calls EXCEPT ![t] =
                       IF r.result.kind = "ok" THEN Obtained(@)
                       ELSE [pc |-> "idle", result |-> r.result]]
    /\ UNCHANGED <<pairs, kvs, SLACK_ACCESS, last, text, heap>>

\* kvs_delete, in one step
CallKvsDelete(t, namespace) ==
    /\ calls[t].pc = "idle"
    /\ LET ns == IF namespace = NoneStr THEN Root ELSE namespace IN
       IF _kvs_retrieve(table, ns).kind = "raise"
       THEN UNCHANGED <<table, segments, pairs>>
       ELSE /\ table' = [table EXCEPT ![ns] = @ - 1]
            /\ segments' = Support(table')
            /\ pairs' = [pairs EXCEPT ![ns] = <<>>]
    /\ calls' = [calls EXCEPT ![t] = Idle]
    /\ UNCHANGED <<kvs, SLACK_ACCESS, last, text, heap>>

NextConcurrent ==
    \/ \E t \in Procs, ns \in ConcurrentNamespaceArgs, sep \in SeparatorArgs,
          create \in BOOLEAN : CallKvsGet(t, ns, sep, create)
    \/ \E t \in Procs : Retrieve(t)
    \/ \E t \in Procs : Create(t)
    \/ \E t \in Procs, ns \in ConcurrentNamespaceArgs : CallKvsDelete(t, ns)

SpecConcurrent == InitStore /\ [][NextConcurrent]_vars

(***************************************************************************)
(* Processes that set items of the held segment at the same time: a call   *)
(* of __setitem__ is a query for the row and an insert or an update, one    *)
(* step each                                                               *)
(***************************************************************************)
\* a process whose call self[key] = value on the segment has returned
Written(segment, key, value) ==
    [pc |-> "idle", result |-> Ok(None), segment |-> segment, key |-> key,
     value |-> value]

\* self[key] = value is called on the held object
CallSetItem(t, key, value) ==
    /\ kvs # NoKvs
    /\ calls[t].pc = "idle"
    /\ calls' = [calls EXCEPT ![t] =
                    [pc |-> "item", segment |-> kvs[1], key |-> key, value |-> value]]
    /\ UNCHANGED <<segments, pairs, kvs, SLACK_ACCESS, last, table, text, heap>>

\* try: item = self._item(key); any exception leads to _create_item
Item(t) ==
    /\ calls[t].pc = "item"
    /\ \E item \in {_item(pairs, calls[t].segment, calls[t].key)} :
          calls' = [calls EXCEPT ![t] =
                       IF item.kind = "raise" THEN [@ EXCEPT !.pc = "create"]
                       ELSE [pc |-> "save", segment |-> @.segment, key |-> @.key,
                             value |-> @.value, item |-> item.val]]
    /\ UNCHANGED <<segments, pairs, kvs, SLACK_ACCESS, last, table, text, heap>>

\* except: self._create_item(key, value)
CreateItem(t) ==
    /\ calls[t].pc = "create"
    /\ pairs' = _create_item(pairs, calls[t].segment, calls[t].key, calls[t].value)
    /\ TotalRows(pairs') <= MaxRows
    /\ calls' = [calls EXCEPT ![t] = Written(@.segment, @.key, @.value)]
    /\ UNCHANGED <<segments, kvs, SLACK_ACCESS, last, table, text, heap>>

\* else: item.value = value; item.save()
Save(t) ==
    /\ calls[t].pc = "save"
    /\ pairs' = [pairs EXCEPT ![calls[t].segment][calls[t].item].value = calls[t].value]
    /\ calls' = [calls EXCEPT ![t] = Written(@.segment, @.key, @.value)]
    /\ UNCHANGED <<segments, kvs, SLACK_ACCESS, last, table, text, heap>>

NextWriters ==
    \/ \E ns \in ConcurrentNamespaceArgs, sep \in SeparatorArgs : KvsGet(ns, sep, TRUE)
    \/ \E t \in Procs, key \in Keys, value \in Values : CallSetItem(t, key, value)
    \/ \E t \in Procs : Item(t)
    \/ \E t \in Procs : CreateItem(t)
    \/ \E t \in Procs : Save(t)
    \/ \E key \in Keys : GetItem(key)

SpecWriters == InitStore /\ [][NextWriters]_vars

(***************************************************************************)
(* Readers of a segment whose rows several processes write: the value of a *)
(* row may be the empty string or None (null=True, blank=True)             *)
(***************************************************************************)
StoredValues == {"", None}

Defaults == {"d"}

NextReaders ==
    \/ \E ns \in ConcurrentNamespaceArgs, sep \in SeparatorArgs : KvsGet(ns, sep, TRUE)
    \/ \E t \in Procs, key \in Keys, value \in StoredValues : CallSetItem(t, key, value)
    \/ \E t \in Procs : Item(t)
    \/ \E t \in Procs : CreateItem(t)
    \/ \E t \in Procs : Save(t)
    \/ \E key \in Keys : GetItem(key)
    \/ \E key \in Keys, default \in Defaults : Get(key, default)
    \/ \E key \in Keys : Contains(key)

SpecReaders == InitStore /\ [][NextReaders]_vars

(***************************************************************************)
(* Calls of parent_namespace with namespaces of any form                   *)
(***************************************************************************)
MaxNamespaceLen == 6

abc == <<"a", ":", ":", "b", ":", ":", "c">>

NamespaceStrings ==
    UNION {[1..n -> {"a", ":"}] : n \in 0..MaxNamespaceLen} \cup Namespaces \cup {abc}

ParentNamespace(namespace, hierarchy_separator) ==
    /\ last' = [op |-> "parent_namespace", namespace |-> namespace,
                hierarchy_separator |-> hierarchy_separator,
                result |-> parent_namespace(namespace, hierarchy_separator)]
    /\ UNCHANGED <<segments, pairs, kvs, SLACK_ACCESS, table, calls, text, heap>>

NextNamespace ==
    \E namespace \in NamespaceStrings, sep \in {DefaultSeparator, <<":">>} :
        ParentNamespace(namespace, sep)

SpecNamespace == InitStore /\ [][NextNamespace]_vars

(***************************************************************************)
(* A view object made for a request with the text, its dispatch, and a     *)
(* handler that declares options on the parser dispatch made and runs it   *)
(***************************************************************************)
\* the options a handler declares
OptionSets == {{}, {CountOption}, {IntOption}, {VersionOption}}

Dispatch ==
    \E d \in {dispatch(text)} :
    /\ last' = [op |-> "dispatch", subcommand |-> d.subcommand,
                remainder |-> d.remainder, method |-> d.method, result |-> d.result]
    /\ UNCHANGED <<segments, pairs, kvs, SLACK_ACCESS, table, calls, text, heap>>

ParserRun(opts) ==
    /\ last' = [op |-> "parser.run", options |-> opts,
                result |-> parse(opts, dispatch(text).remainder)]
    /\ UNCHANGED <<segments, pairs, kvs, SLACK_ACCESS, table, calls, text, heap>>

InitDispatch == Init /\ SLACK_ACCESS = TestAccess

\* most argument strings of a command
MaxTokens == 3
\* subcommands as typed: echo and version, their aliases, echob
Subcommands ==
    {<<"e">>, <<"E">>, echo_, <<"E", "c", "h", "o">>, echo_ \o <<"b">>,
     <<"v">>, <<"V">>, version}
\* words, the declared flag, the double dash, an undeclared flag, the help flag
ArgTokens == {<<"e">>, <<"h">>, <<"-", "u">>, Dashes, <<"-", "e">>, <<"-", "h">>}
\* texts of a subcommand and argument strings with one space between
CommandTexts ==
    {join(" ", <<sub>> \o toks) :
        sub \in Subcommands, toks \in UNION {[1..n -> ArgTokens] : n \in 0..MaxTokens}}

InitCommand ==
    /\ segments = {}
    /\ pairs = NoPairs
    /\ kvs = NoKvs
    /\ SLACK_ACCESS = TestAccess
    /\ last = [op |-> "init"]
    /\ table = TableOf({})
    /\ calls = [t \in Procs |-> Idle]
    /\ text \in CommandTexts
    /\ heap = NoHeap

NextDispatch ==
    \/ Dispatch
    \/ \E opts \in OptionSets : ParserRun(opts)

SpecDispatch == InitDispatch /\ [][NextDispatch]_vars

\* the same view for the texts of commands
SpecCommand == InitCommand /\ [][NextDispatch]_vars

\* the same view for texts that begin with the name of an attribute of the
\* view, of a handler with its prefix, or with no letter
AttributeTexts ==
    {join(" ", <<sub>> \o toks) :
        sub \in Subcommands \cup {o[1] : o \in OtherAttributes}
                \cup {<<>>, <<"r", "u", "n", "_">> \o help, <<"r", "u", "n", "_">>},
        toks \in UNION {[1..n -> ArgTokens] : n \in 0..1}}

InitAttributes ==
    /\ segments = {}
    /\ pairs = NoPairs
    /\ kvs = NoKvs
    /\ SLACK_ACCESS = TestAccess
    /\ last = [op |-> "init"]
    /\ table = TableOf({})
    /\ calls = [t \in Procs |-> Idle]
    /\ text \in AttributeTexts
    /\ heap = NoHeap

SpecAttributes == InitAttributes /\ [][NextDispatch]_vars

(***************************************************************************)
(* Processes that handle requests through the view of as_view: a view      *)
(* object and its parser are made, then the handler runs                   *)
(***************************************************************************)
ViewTexts ==
    {join(" ", toks) : toks \in
        {<<<<"e">>, <<"-", "u">>, <<"e">>>>, <<<<"e">>, <<"e">>>>,
         <<echo_ \o <<"b">>, <<"-", "u">>>>, <<echo_ \o <<"b">>, <<"e">>, <<"h">>>>,
         <<version>>, <<<<"h">>>>, <<>>}}

\* the parser of the dispatch the process has handled before
PreviousParser(c) == IF "parser" \in DOMAIN c THEN c.parser ELSE NoParser

\* view(request): cls(request).dispatch() up to the lookup of the handler
View(t, text_) ==
    /\ calls[t].pc = "idle"
    /\ \E d \in {dispatch(text_)} :
          calls' = [calls EXCEPT ![t] =
                       [pc |-> "run", text |-> text_, subcommand |-> d.subcommand,
                        method |-> d.method,
                        parser |-> _parser(PreviousParser(@), d.remainder)]]
    /\ UNCHANGED <<segments, pairs, kvs, SLACK_ACCESS, last, table, text, heap>>

\* return run_subcommand(parser), or s.unknown_command(subcommand, parser)
Run(t) ==
    /\ calls[t].pc = "run"
    /\ \E h \in {Handler(calls[t].method, calls[t].subcommand, calls[t].parser)} :
          calls' = [calls EXCEPT ![t] =
                       [pc |-> "idle", text |-> @.text, method |-> @.method,
                        result |-> h.result, parser |-> h.parser]]
    /\ UNCHANGED <<segments, pairs, kvs, SLACK_ACCESS, last, table, text, heap>>

NextViews ==
    \/ \E t \in Procs, text_ \in ViewTexts : View(t, text_)
    \/ \E t \in Procs : Run(t)

SpecViews == InitStore /\ [][NextViews]_vars

(***************************************************************************)
(* Requests to the view of as_view, with or without text in the payload     *)
(***************************************************************************)
PayloadTexts == ViewTexts \cup {<<"e", " ", EmDash, "u", " ", "e">>}

PayloadRequests ==
    [method : {"GET", "POST"},
     data : [token : Tokens \cup {Missing}, team_id : Teams \cup {Missing},
             text : PayloadTexts \cup {MissingText}]]

ViewRequest(request) ==
    /\ last' = [op |-> "view", request |-> request,
                result |-> as_view(SLACK_ACCESS, request)]
    /\ UNCHANGED <<segments, pairs, kvs, SLACK_ACCESS, table, calls, text, heap>>

NextPayload == \E request \in PayloadRequests : ViewRequest(request)

SpecPayload == InitStore /\ [][NextPayload]_vars

(***************************************************************************)
(* The caller of attachments and responses                                  *)
(***************************************************************************)
\* longest list
MaxListLen == 3
\* most attachments made
MaxAttachments == 2

Fallbacks == {"Attachment 1", "Attachment 2"}
Components ==
    {Text("mytext", "pretext"), Text("other", None), Author("name", "link", "icon"),
     Title("title", "link"), Image("image", "thumb")}
\* in_channel=True given or not
KwArgs == {{}, {"in_channel"}}

\* lists of at most MaxListLen elements of S
Lists(S) == UNION {[1..n -> S] : n \in 0..MaxListLen}

Others == <<segments, pairs, kvs, SLACK_ACCESS, table, calls, text>>

MakeAttachment(fallback, components) ==
    /\ heap' = Attachment__init__(heap, fallback, components)
    /\ last' = [op |-> "Attachment", a |-> Len(heap.attachments) + 1,
                components |-> components]
    /\ UNCHANGED Others

AttachmentAdd(a, components) ==
    /\ Len(heap.lists[heap.attachments[a].components]) + Len(Elements(heap, components))
           <= MaxListLen
    /\ heap' = Attachment_add(heap, a, components)
    /\ last' = [op |-> "Attachment.add", a |-> a, components |-> components]
    /\ UNCHANGED Others

AttachmentAsDict(a) ==
    /\ last' = [op |-> "Attachment.as_dict", a |-> a, result |-> Attachment_as_dict(heap, a)]
    /\ UNCHANGED <<segments, pairs, kvs, SLACK_ACCESS, table, calls, text, heap>>

\* SlackResponseText(response_text, **kwargs).as_dict()
ResponseTextAsDict(response_text, kwargs) ==
    /\ \E s \in {SlackResponseText__init__(response_text, kwargs)} :
           last' = [op |-> "SlackResponseText.as_dict", kwargs |-> kwargs,
                    result |-> IF s.kind = "raise" THEN s
                               ELSE Ok(SlackResponseText_as_dict(s.val))]
    /\ UNCHANGED <<segments, pairs, kvs, SLACK_ACCESS, table, calls, text, heap>>

\* SlackResponse(text, attachments, **kwargs): __init__ has no other parameter
MakeResponse(text_, attachments, kwargs) ==
    /\ heap' = IF kwargs # {} THEN heap ELSE SlackResponse__init__(heap, text_, attachments)
    /\ last' = [op |-> "SlackResponse", r |-> Len(heap.responses) + 1,
                attachments |-> attachments, kwargs |-> kwargs,
                result |-> IF kwargs # {} THEN Raise("TypeError") ELSE Ok(None)]
    /\ UNCHANGED Others

ResponseAdd(r, attachments) ==
    /\ Len(heap.lists[heap.responses[r].attachments]) + Len(Elements(heap, attachments))
           <= MaxListLen
    /\ heap' = SlackResponse_add(heap, r, attachments)
    /\ last' = [op |-> "SlackResponse.add", r |-> r, attachments |-> attachments]
    /\ UNCHANGED Others

ResponseAsDict(r) ==
    /\ last' = [op |-> "SlackResponse.as_dict", r |-> r,
                result |-> SlackResponse_as_dict(heap, r)]
    /\ UNCHANGED <<segments, pairs, kvs, SLACK_ACCESS, table, calls, text, heap>>

\* one attachment, made without components or from a list of them; what it
\* is given later is a component, a list, or its own list
NextAttachment ==
    \/ /\ heap.attachments = <<>>
       /\ \E fallback \in Fallbacks,
             components \in {NoneArg} \cup {Literal(l) : l \in Lists(Components)} :
             MakeAttachment(fallback, components)
    \/ \E a \in DOMAIN heap.attachments :
          \E components \in {Object(c) : c \in Components}
                                \cup {Literal(l) : l \in Lists(Components)}
                                \cup {ListObject(heap.attachments[a].components)} :
             AttachmentAdd(a, components)
    \/ \E a \in DOMAIN heap.attachments : AttachmentAsDict(a)

SpecAttachment == InitStore /\ [][NextAttachment]_vars

\* attachments without components and one response, made without
\* attachments, from one, or from a list; what it is given later is an
\* attachment, a list, or its own list
NextResponse ==
    \/ /\ Len(heap.attachments) < MaxAttachments
       /\ \E fallback \in Fallbacks : MakeAttachment(fallback, NoneArg)
    \/ /\ heap.responses = <<>>
       /\ \E attachments \in {NoneArg} \cup {Object(a) : a \in DOMAIN heap.attachments}
                     \cup {Literal(l) : l \in Lists(DOMAIN heap.attachments)},
             kwargs \in KwArgs :
             MakeResponse("text", attachments, kwargs)
    \/ \E r \in DOMAIN heap.responses :
          \E attachments \in {Object(a) : a \in DOMAIN heap.attachments}
                                 \cup {Literal(l) : l \in Lists(DOMAIN heap.attachments)}
                                 \cup {ListObject(heap.responses[r].attachments)} :
             ResponseAdd(r, attachments)
    \/ \E r \in DOMAIN heap.responses : ResponseAsDict(r)
    \/ \E kwargs \in KwArgs : ResponseTextAsDict("the response", kwargs)

SpecResponse == InitStore /\ [][NextResponse]_vars

\* most responses made, and most lists of the caller that no object holds
MaxResponses == 2
MaxCallerLists == 1
\* longest list of an object here
MaxSharedLen == 2

\* the component or attachment that add is given
SharedComponents == {Title("title", "link")}

\* the lists of the heap that an attachment or a response holds
HeldLists(h) ==
    {h.attachments[a].components : a \in DOMAIN h.attachments}
        \cup {h.responses[r].attachments : r \in DOMAIN h.responses}

\* the caller's statement shared = []
NewList ==
    /\ heap' = Allocate(heap, <<>>)
    /\ last' = [op |-> "list", id |-> Len(heap.lists) + 1]
    /\ UNCHANGED Others

\* the lists the caller can give to an attachment, which no response holds,
\* and those it can give to a response, which no attachment holds: lists it
\* has made and the lists of the objects made before
ComponentLists(h) ==
    {id \in DOMAIN h.lists :
        \A r \in DOMAIN h.responses : h.responses[r].attachments # id}
AttachmentLists(h) ==
    {id \in DOMAIN h.lists :
        \A a \in DOMAIN h.attachments : h.attachments[a].components # id}

\* several attachments and responses, each made without a list or from a
\* list the caller holds and may have given to an object before; each is
\* given one component or one attachment at a time
NextShared ==
    \/ /\ Len(heap.lists) - Cardinality(HeldLists(heap)) < MaxCallerLists
       /\ Len(heap.attachments) + Len(heap.responses) < MaxAttachments + MaxResponses
       /\ NewList
    \/ /\ Len(heap.attachments) < MaxAttachments
       /\ \E components \in {NoneArg} \cup {ListObject(id) : id \in ComponentLists(heap)} :
             MakeAttachment("Attachment 1", components)
    \/ /\ Len(heap.responses) < MaxResponses
       /\ \E attachments \in {NoneArg} \cup {ListObject(id) : id \in AttachmentLists(heap)} :
             MakeResponse("text", attachments, {})
    \/ \E a \in DOMAIN heap.attachments, c \in SharedComponents :
             /\ Len(heap.lists[heap.attachments[a].components]) < MaxSharedLen
             /\ AttachmentAdd(a, Object(c))
    \/ \E r \in DOMAIN heap.responses, a \in DOMAIN heap.attachments :
             /\ Len(heap.lists[heap.responses[r].attachments]) < MaxSharedLen
             /\ ResponseAdd(r, Object(a))
    \/ \E a \in DOMAIN heap.attachments : AttachmentAsDict(a)
    \/ \E r \in DOMAIN heap.responses : ResponseAsDict(r)

SpecShared == InitStore /\ [][NextShared]_vars

(***************************************************************************)
(* The Slack views: requests under any access table, with the tokens that  *)
(* tests.py writes to the namespace slack::token                           *)
(***************************************************************************)
NextSlack ==
    \/ \E request \in Requests, function \in Functions : Request(request, function)
    \/ KvsGet(NsSlackToken, NoneStr, TRUE)
    \/ \E key \in Keys, value \in Values : SetItem(key, value)
    \/ \E key \in Keys : DelItem(key)

InitSlack == Init /\ text = <<>>

SpecSlack == InitSlack /\ [][NextSlack]_vars

(***************************************************************************)
(* Properties of the access check                                          *)
(***************************************************************************)
\* the form data carries a token of the table, and the team the table asks for
Admissible(access, data) ==
    /\ data.token \in DOMAIN access
    /\ access[data.token] \in {PyTrue, data.team_id}

IsDenial(response) ==
    /\ response.kind = "HttpResponse"
    /\ response.status = 403
    /\ response.content = "access denied"

\* C1: a POST is admitted (the wrapped function is called) when its token
\* maps to True, whatever its team and also without a team_id field; when
\* its token maps to a team, only with exactly that team; and never when the
\* token is not in the table or the token field is missing
AccessDecision ==
    (last.op = "request" /\ last.request.method = "POST") =>
        LET data == last.request.data IN
        /\ last.called <=> Admissible(SLACK_ACCESS, data)
        /\ ~last.called <=> IsDenial(last.response)
        /\ (data.token \notin DOMAIN SLACK_ACCESS) => ~last.called
        /\ (data.token \in DOMAIN SLACK_ACCESS /\ SLACK_ACCESS[data.token] = PyTrue)
               => last.called
        /\ (data.token \in DOMAIN SLACK_ACCESS /\ SLACK_ACCESS[data.token] # PyTrue)
               => (last.called <=> data.team_id = SLACK_ACCESS[data.token])

\* a wildcard token was admitted without a team_id field
AccessDecisionWitness ==
    /\ last.op = "request"
    /\ last.request.method = "POST"
    /\ last.request.data.token \in DOMAIN SLACK_ACCESS
    /\ SLACK_ACCESS[last.request.data.token] = PyTrue
    /\ last.request.data.team_id = Missing
    /\ last.called
    /\ \E t \in DOMAIN SLACK_ACCESS : SLACK_ACCESS[t] \in Teams

\* C2: a denied request never reaches the wrapped function, changes neither
\* the key-value store nor any other state, and is answered with status 403
\* and the body 'access denied'
DenialBeforeDispatch ==
    [][(/\ last'.op = "request"
        /\ ~(/\ last'.request.method = "POST"
             /\ Admissible(SLACK_ACCESS, last'.request.data)))
          => /\ ~last'.called
             /\ IsDenial(last'.response)
             /\ UNCHANGED <<segments, pairs, kvs, SLACK_ACCESS>>]_vars

\* a POST with a known token and the wrong team was denied, the store holding rows
DenialBeforeDispatchWitness ==
    /\ last.op = "request"
    /\ last.request.method = "POST"
    /\ last.request.data.token \in DOMAIN SLACK_ACCESS
    /\ last.request.data.team_id \in Teams
    /\ ~Admissible(SLACK_ACCESS, last.request.data)
    /\ IsDenial(last.response)
    /\ pairs[NsSlackToken] # <<>>

\* C3: every GET is answered 403 with the denial body, also when its query
\* string carries a token and team a POST would be admitted with; so is a
\* POST without fields
GetIsDenied ==
    (last.op = "request"
     /\ (last.request.method = "GET" \/ last.request.data = NoData))
        => (IsDenial(last.response) /\ ~last.called)

\* a GET was denied whose token and team are admissible
GetIsDeniedWitness ==
    /\ last.op = "request"
    /\ last.request.method = "GET"
    /\ last.request.data.team_id \in Teams
    /\ Admissible(SLACK_ACCESS, last.request.data)
    /\ SLACK_ACCESS[last.request.data.token] # PyTrue
    /\ IsDenial(last.response)

\* the value the namespace slack::token holds for the token, if any
StoredTeams(tok) ==
    {pairs[NsSlackToken][i].value :
        i \in {j \in DOMAIN pairs[NsSlackToken] : pairs[NsSlackToken][j].key = tok}}

\* C4: a token written to the store namespace slack::token and absent from
\* SLACK_ACCESS is admitted with the team stored for it, and with any team
\* when 'true' is stored for it, and denied with any other team
StoreTokensAdmitted ==
    (/\ last.op = "request"
     /\ last.request.method = "POST"
     /\ last.request.data.token \notin DOMAIN SLACK_ACCESS
     /\ last.request.data.team_id \in Teams
     /\ StoredTeams(last.request.data.token) # {})
        => (last.called <=>
               \E v \in StoredTeams(last.request.data.token) :
                   v \in {"true", last.request.data.team_id})

(***************************************************************************)
(* Properties of the key-value store                                       *)
(***************************************************************************)
\* the values the rows of namespace ns hold for key
Held(p, ns, key) ==
    {p[ns][i].value : i \in {j \in DOMAIN p[ns] : p[ns][j].key = key}}

\* the levels of the chain c whose segment has a row for key
Holders(p, c, key) == {l \in DOMAIN c : Held(p, c[l], key) # {}}

\* C5: read(k) on a segment returns the value of the nearest segment of its
\* chain that holds k (its own value shadows an ancestor's, and an
\* ancestor's value shows once the own entry is removed) and raises KeyError
\* exactly when neither the segment nor any linked ancestor holds k
ReadShadowing ==
    last.op = "__getitem__" =>
        LET H == Holders(pairs, kvs, last.key) IN
        IF H = {} THEN last.result = Raise("KeyError")
        ELSE LET l == CHOOSE i \in H : \A j \in H : i <= j IN
             /\ last.result.kind = "ok"
             /\ Held(pairs, kvs[l], last.key) = {last.result.val}

\* the child's value was read while the parent holds another one for the key
ReadShadowingWitness ==
    /\ last.op = "__getitem__"
    /\ Len(kvs) >= 2
    /\ Held(pairs, kvs[1], last.key) # {}
    /\ Held(pairs, kvs[2], last.key) # {}
    /\ Held(pairs, kvs[1], last.key) # Held(pairs, kvs[2], last.key)
    /\ last.result.kind = "ok"
    /\ {last.result.val} = Held(pairs, kvs[1], last.key)

\* every namespace but ns keeps its record and its rows in this step
OthersUnchanged(ns) ==
    \A n \in Namespaces \ {ns} :
        /\ pairs'[n] = pairs[n]
        /\ (n \in segments') = (n \in segments)

\* C6: write(key, value) on a segment and update(namespace, entries, policy)
\* change the entries of the addressed namespace only, also when an
\* ancestor holds the key
WritesAreLocal ==
    [][/\ last'.op = "__setitem__" =>
              /\ OthersUnchanged(kvs[1])
              /\ Held(pairs', kvs[1], last'.key) = {last'.value}
              /\ segments' = segments
       /\ last'.op = "kvs_update" => OthersUnchanged(last'.namespace)]_vars

\* a key was written to a child whose parent holds another value for it
WritesAreLocalWitness ==
    /\ last.op = "__setitem__"
    /\ Len(kvs) >= 2
    /\ Held(pairs, kvs[1], last.key) = {last.value}
    /\ Held(pairs, kvs[2], last.key) # {}
    /\ Held(pairs, kvs[2], last.key) # {last.value}

\* C7: remove(key) on a segment without an own entry for the key raises
\* KeyError and changes nothing, also when an ancestor holds the key;
\* otherwise it removes the own entry and nothing else
RemoveIsLocal ==
    [][last'.op = "__delitem__" =>
          /\ segments' = segments
          /\ OthersUnchanged(kvs[1])
          /\ IF Held(pairs, kvs[1], last'.key) = {}
             THEN /\ last'.result = Raise("KeyError")
                  /\ pairs' = pairs
             ELSE /\ last'.result = Ok(None)
                  /\ Held(pairs', kvs[1], last'.key) = {}
                  /\ \A k \in Keys \ {last'.key} :
                         Held(pairs', kvs[1], k) = Held(pairs, kvs[1], k)]_vars

\* remove raised KeyError on a child whose parent holds the key
RemoveIsLocalWitness ==
    /\ last.op = "__delitem__"
    /\ last.result = Raise("KeyError")
    /\ Len(kvs) >= 2
    /\ Held(pairs, kvs[1], last.key) = {}
    /\ Held(pairs, kvs[2], last.key) # {}
    /\ __contains__(pairs, kvs, last.key) = Ok(TRUE)

\* C8: the snapshot as_dict of a segment maps every key to what read(k)
\* returns, so that a key held by the segment and by an ancestor maps to the
\* segment's own value
SnapshotChildWins ==
    last.op = "as_dict" =>
        \A k \in DOMAIN last.result.val :
            __getitem__(pairs, kvs, k) = Ok(last.result.val[k])

\* number of rows of the chain c before level l
Offset(p, c, l) ==
    Cardinality({<<m, j>> \in (1..(l - 1)) \X (1..MaxRows) : j <= Len(p[c[m]])})

\* C9: keys(), values() and items() yield the own rows followed by those of
\* the parent, recursively, without de-duplication: a key held at m levels
\* of the chain appears m times; length() is the number of elements
\* yielded, the sum of the row counts of the levels
IterationNotDeduplicated ==
    last.op = "iterate" =>
        /\ Len(last.keys) = Offset(pairs, kvs, Len(kvs) + 1)
        /\ Len(last.values) = Len(last.keys)
        /\ Len(last.items) = Len(last.keys)
        /\ last.len = Len(last.keys)
        /\ \A l \in DOMAIN kvs : \A j \in DOMAIN pairs[kvs[l]] :
               LET i == Offset(pairs, kvs, l) + j
                   row == pairs[kvs[l]][j]
               IN /\ last.keys[i] = row.key
                  /\ last.values[i] = row.value
                  /\ last.items[i] = <<row.key, row.value>>
        /\ \A k \in Keys :
               Cardinality({i \in DOMAIN last.keys : last.keys[i] = k})
                   = Cardinality(Holders(pairs, kvs, k))

\* a key held by child and parent was yielded twice
IterationNotDeduplicatedWitness ==
    /\ last.op = "iterate"
    /\ Len(kvs) >= 2
    /\ \E k \in Keys :
           /\ Cardinality(Holders(pairs, kvs, k)) = 2
           /\ Cardinality({i \in DOMAIN last.keys : last.keys[i] = k}) = 2
    /\ last.len = 2

\* C10: update under RAISE, or without a policy, of a namespace that has a
\* record, even one without rows, raises and leaves records and rows as
\* they were
RaiseLeavesStore ==
    [][(/\ last'.op = "kvs_update"
        /\ last'.action_if_exists \in {NoneAction, RAISE}
        /\ last'.namespace \in segments)
          => /\ last'.result = Raise("RuntimeError")
             /\ UNCHANGED <<segments, pairs, kvs>>]_vars

\* update raised on a namespace whose record has no rows
RaiseLeavesStoreWitness ==
    /\ last.op = "kvs_update"
    /\ last.result = Raise("RuntimeError")
    /\ last.namespace \in segments
    /\ pairs[last.namespace] = <<>>
    /\ TotalRows(pairs) > 0

(***************************************************************************)
(* Properties of the global methods                                        *)
(***************************************************************************)
\* the namespace a global method addresses: None is the default namespace
Addressed(namespace) == IF namespace = NoneStr THEN Root ELSE namespace

\* the entries a call of kvs_update is given: None is the empty dict
Entries(dct) == IF dct = NoneDict THEN <<>> ELSE dct

\* the keys of the rows
KeysOf(rows) == {rows[i].key : i \in DOMAIN rows}

\* C11: update under CLEAR leaves the namespace with a record and exactly
\* the given entries, one row each: a key it held before and that is not
\* among the entries is gone; so does update of a namespace without a record
ClearReplacesEntries ==
    [][(/\ last'.op = "kvs_update"
        /\ \/ last'.action_if_exists = CLEAR
           \/ Addressed(last'.namespace) \notin segments)
          => LET ns == Addressed(last'.namespace)
                 d == Entries(last'.dct)
             IN /\ last'.result.kind = "ok"
                /\ ns \in segments'
                /\ DictOfRows(pairs'[ns]) = DictOfRows(d)
                /\ Len(pairs'[ns]) = Len(d)
                /\ \A k \in KeysOf(pairs[ns]) \ KeysOf(d) :
                       Held(pairs', ns, k) = {}]_vars

\* update under CLEAR dropped a key of a namespace and set another one
ClearReplacesEntriesWitness ==
    /\ last.op = "kvs_update"
    /\ last.action_if_exists = CLEAR
    /\ last.result.kind = "ok"
    /\ last.dct # NoneDict
    /\ KeysOf(pairs[Addressed(last.namespace)]) = {"k2"}
    /\ \E n \in Namespaces \ {Addressed(last.namespace)} : pairs[n] # <<>>

\* C12: update under UPDATE of a namespace that has a record merges: the
\* namespace then maps every key of the entries to the given value and
\* every other key to the value it had, one row per key; the same update
\* applied again changes neither records nor rows
UpdateMerges ==
    [][(/\ last'.op = "kvs_update"
        /\ last'.action_if_exists = UPDATE
        /\ Addressed(last'.namespace) \in segments)
          => LET ns == Addressed(last'.namespace)
                 d == Entries(last'.dct)
                 again == kvs_update(segments', pairs', last'.namespace,
                                     last'.dct, UPDATE)
             IN /\ last'.result.kind = "ok"
                /\ segments' = segments
                /\ DictOfRows(pairs'[ns])
                       = DictUpdate(DictOfRows(pairs[ns]), DictOfRows(d))
                /\ Len(pairs'[ns]) = Cardinality(KeysOf(pairs[ns]) \cup KeysOf(d))
                /\ again.result = last'.result
                /\ again.segments = segments'
                /\ again.pairs = pairs']_vars

\* update under UPDATE set one key of a namespace that holds another one too
UpdateMergesWitness ==
    /\ last.op = "kvs_update"
    /\ last.action_if_exists = UPDATE
    /\ last.result.kind = "ok"
    /\ KeysOf(Entries(last.dct)) = {"k1"}
    /\ KeysOf(pairs[Addressed(last.namespace)]) = {"k1", "k2"}
    /\ pairs[Addressed(last.namespace)][1].key = "k2"

\* C13: get with create_if_not_exist false raises DoesNotExist when the
\* namespace has no record, and neither when it raises nor when it returns
\* a segment does it create a record, of the namespace or of an ancestor
GetWithoutCreate ==
    [][(/\ last'.op = "kvs_get"
        /\ ~last'.create_if_not_exist)
          => /\ segments' = segments
             /\ pairs' = pairs
             /\ Addressed(last'.namespace) \notin segments
                    => /\ last'.result = Raise("DoesNotExist")
                       /\ kvs' = kvs
             /\ last'.result.kind = "ok"
                    => Range(last'.result.val) \subseteq segments]_vars

\* a hierarchical get without creation raised for a namespace that has no
\* record and whose parent has none either, other records existing
GetWithoutCreateWitness ==
    /\ last.op = "kvs_get"
    /\ ~last.create_if_not_exist
    /\ last.hierarchy_separator = TrueStr
    /\ last.namespace = NsSlackToken
    /\ last.result = Raise("DoesNotExist")
    /\ NsSlackToken \notin segments
    /\ NsSlack \notin segments
    /\ Root \in segments

\* C14: exists changes neither records nor rows and returns True exactly
\* when the namespace itself has a record, None standing for the default
\* namespace ""; records of namespaces above or below it do not count
ExistsIsExact ==
    [][last'.op = "kvs_exists"
          => /\ UNCHANGED <<segments, pairs, kvs>>
             /\ last'.result = Ok(Addressed(last'.namespace) \in segments)]_vars

\* exists returned False for a namespace without a record while the
\* namespace below it and the default namespace have one
ExistsIsExactWitness ==
    /\ last.op = "kvs_exists"
    /\ last.namespace = NsSlack
    /\ last.result = Ok(FALSE)
    /\ NsSlackToken \in segments
    /\ Root \in segments

\* C15: delete returns without an exception; it removes the record of the
\* addressed namespace and all its rows and changes nothing when there is
\* no such record; the records and rows of every other namespace, above or
\* below, stay; a get that then creates the namespace again gives a
\* segment without rows
DeleteIsLocal ==
    [][/\ last'.op = "kvs_delete"
          => LET ns == Addressed(last'.namespace) IN
             /\ last'.result = Ok(None)
             /\ ns \notin segments'
             /\ pairs'[ns] = <<>>
             /\ OthersUnchanged(ns)
             /\ ns \notin segments => (UNCHANGED <<segments, pairs>> /\ last'.deleted = 0)
             /\ ns \in segments => last'.deleted = 1 + Len(pairs[ns])
       /\ (/\ last'.op = "kvs_get"
           /\ last'.create_if_not_exist
           /\ Addressed(last'.namespace) \notin segments)
          => /\ last'.result.kind = "ok"
             /\ last'.result.val[1] = Addressed(last'.namespace)
             /\ Addressed(last'.namespace) \in segments'
             /\ pairs'[Addressed(last'.namespace)] = <<>>]_vars

\* a record was deleted with its row while the namespace below it has a
\* record and a row
DeleteIsLocalWitness ==
    /\ last.op = "kvs_delete"
    /\ last.namespace = NsSlack
    /\ last.deleted = 2
    /\ NsSlack \notin segments
    /\ NsSlackToken \in segments
    /\ pairs[NsSlackToken] # <<>>

\* C16: the table never holds two records of one namespace, whatever calls
\* of kvs_get and kvs_delete the processes make and however the queries of
\* their calls interleave
AtMostOneRecord ==
    \A ns \in Namespaces : table[ns] <= 1

\* two processes found no record of a namespace and went on to create it:
\* one has created it, the insert of the other was refused
AtMostOneRecordWitness ==
    /\ table[NsSlackToken] = 1
    /\ calls[1].pc = "idle"
    /\ calls[1].result = Raise("IntegrityError")
    /\ calls[2].pc = "idle"
    /\ calls[2].result.kind = "ok"
    /\ calls[2].result.val[1] = NsSlackToken

(***************************************************************************)
(* Properties of the null store                                            *)
(***************************************************************************)
\* C17: on the null store __getitem__ raises KeyError, get returns the
\* default, __contains__ is False, __len__ is 0, keys, values, items and
\* as_dict are empty, and each of __setitem__, __delitem__, clear,
\* kvs_update and kvs_delete raises the RuntimeError of a refused write
NullRefusesMutation ==
    /\ last.op = "__getitem__" => last.result = Raise("KeyError")
    /\ last.op = "get" => last.result = Ok(last.args[2])
    /\ last.op = "__contains__" => last.result = Ok(FALSE)
    /\ last.op = "__len__" => last.result = Ok(0)
    /\ last.op \in {"keys", "values", "items"} => last.result = Ok(<<>>)
    /\ last.op = "as_dict" => last.result = Ok(EmptyDict)
    /\ last.op \in {"__setitem__", "__delitem__", "clear", "kvs_update", "kvs_delete"}
           => last.result = Raise("RuntimeError")

(***************************************************************************)
(* Properties of dispatch and parse                                        *)
(***************************************************************************)
\* the longest prefix of str made of letters
LeadingLetters(str) ==
    LET n == CHOOSE k \in 0..Len(str) :
                 /\ \A i \in 1..k : str[i] \in Alpha
                 /\ k < Len(str) => str[k + 1] \notin Alpha
    IN SubSeq(str, 1, n)

\* the text after the letters and the one character that follows them
AfterSeparator(str) ==
    SubSeq(str, Len(LeadingLetters(str)) + 2, Len(str))

IsBlank(str) == \A i \in DOMAIN str : str[i] = " "

\* C18: dispatch calls the method bound to run_<subcommand in lower case>
\* when the view has this attribute, the parser being made for the text
\* after the separator; for every other text, the empty subcommand
\* included, it returns the text response "unknown subcommand '<s>'; try
\* 'help'" with the subcommand as typed, and raises nothing
RoutingIsTotal ==
    last.op = "dispatch" =>
        LET subcommand == LeadingLetters(text)
            name == [i \in DOMAIN subcommand |-> lower(subcommand[i])]
            bound == {a[2] : a \in {b \in RunAttributes : b[1] = name}}
        IN /\ last.subcommand = subcommand
           /\ last.remainder = AfterSeparator(text)
           /\ bound # {} => last.method \in bound
           /\ bound = {} =>
                  /\ last.method = "unknown_command"
                  /\ last.result.kind = "ok"
                  /\ last.result.val.kind = "SlackResponseText"
                  /\ last.result.val.response_text =
                         <<"unknown subcommand '">> \o subcommand \o <<"'; try 'help'">>

\* the subcommand typed as E was routed to run_echo with its remainder
RoutingIsTotalWitness ==
    /\ last.op = "dispatch"
    /\ last.subcommand = <<"E">>
    /\ last.method = "run_echo"
    /\ last.remainder = <<"-", "u">>
    /\ last.result.kind = "ok"

\* C19: a text of spaces only, or no text, is routed to unknown_command
\* with the subcommand '', and the parser made for it gives no positional
\* argument when run; an empty remainder is split into no argument string
BlankTextNoArguments ==
    /\ (last.op = "dispatch" /\ IsBlank(text)) =>
           /\ last.method = "unknown_command"
           /\ last.subcommand = <<>>
    /\ (last.op = "parser.run" /\ (IsBlank(text) \/ AfterSeparator(text) = <<>>)) =>
           /\ last.result.kind = "ok"
           /\ ~last.result.val.error
           /\ last.result.val.posn = <<>>

\* C20: parser.run() raises nothing, whatever the remainder and the declared
\* options: it returns a namespace with error False and posn, or with error
\* True and errmsg
ParseNeverRaises ==
    last.op = "parser.run" =>
        /\ last.result.kind = "ok"
        /\ IF last.result.val.error
           THEN DOMAIN last.result.val = {"error", "errmsg"}
           ELSE {"error", "posn"} \subseteq DOMAIN last.result.val

(***************************************************************************)
(* Properties of the handlers of SlackViewExample                          *)
(***************************************************************************)
\* the options the handler bound to method declares before it runs the parser
DeclaredBy(method) == IF method = "run_echo" THEN {CountOption} ELSE {}

\* parser.run() of the handler that dispatch called returned an error namespace
ParseFailed ==
    /\ last.op = "dispatch"
    /\ last.method \in {"run_echo", "run_echob"}
    /\ \E run \in {parse(DeclaredBy(last.method), last.remainder)} :
           run.kind = "ok" /\ run.val.error

\* C21: when the parse fails, run_echo and the decorated run_echob, which do
\* not look at the error flag, see no positional argument and the default of
\* the option: dispatch returns the response "you said: " and raises nothing
UncheckedErrorUsesDefaults ==
    ParseFailed =>
        /\ last.result.kind = "ok"
        /\ last.result.val = SlackResponseText(<<"you said: ">>)

\* the argument strings of the remainder that dispatch made the parser for
ArgumentStrings ==
    LET params == split(AfterSeparator(text), " ")
    IN IF params = <<<<>>>> THEN <<>> ELSE params

\* an argument string that is not the flag run_echo declares
NotDeclaredFlag(t) == t # <<"-", "u">>

\* the argument strings the declared option does not take: all but the
\* flags before the first double dash
RECURSIVE NotConsumed(_)
NotConsumed(toks) ==
    IF toks = <<>> THEN <<>>
    ELSE IF toks[1] = Dashes THEN toks
    ELSE IF NotDeclaredFlag(toks[1]) THEN <<toks[1]>> \o NotConsumed(Tail(toks))
    ELSE NotConsumed(Tail(toks))

\* a word, which no parser takes for an option
IsWord(t) == t # <<>> /\ t[1] # "-"

\* C22: with the option of run_echo declared, a parse that succeeds gives as
\* posn the argument strings other than the declared flag, in their order,
\* and a parse of words and declared flags succeeds wherever the flags stand
PositionalsInOrder ==
    (last.op = "parser.run" /\ last.options = {CountOption}) =>
        /\ (last.result.kind = "ok" /\ ~last.result.val.error) =>
               last.result.val.posn = NotConsumed(ArgumentStrings)
        /\ (\A i \in DOMAIN ArgumentStrings :
                IsWord(ArgumentStrings[i]) \/ ~NotDeclaredFlag(ArgumentStrings[i])) =>
               /\ last.result.kind = "ok"
               /\ ~last.result.val.error

\* the text with its subcommand replaced by original
Renamed(original) ==
    original \o SubSeq(text, Len(last.subcommand) + 1, Len(text))

\* C23: after alias('e', 'echo') and alias('v', 'version') a text whose
\* subcommand is e or v in either case gets the response, or the exception,
\* of the same text under echo or version, and echo and version are still
\* bound to their methods
AliasIsSynonym ==
    last.op = "dispatch" =>
        LET name == [i \in DOMAIN last.subcommand |-> lower(last.subcommand[i])]
        IN /\ name = <<"e">> =>
                  /\ last.method = "run_echo"
                  /\ last.result = dispatch(Renamed(echo_)).result
           /\ name = <<"v">> =>
                  /\ last.method = "run_version"
                  /\ last.result = dispatch(Renamed(version)).result
           /\ name = echo_ => last.method = "run_echo"
           /\ name = version => last.method = "run_version"

\* the subcommand typed as E was answered by run_echo with its arguments
AliasIsSynonymWitness ==
    /\ last.op = "dispatch"
    /\ text = <<"E", " ", "-", "u", " ", "e", " ", "h">>
    /\ last.method = "run_echo"
    /\ last.result = Ok(SlackResponseText(<<"you said: ", "E", "-", "H">>))

(***************************************************************************)
(* Properties of responses and attachments                                 *)
(***************************************************************************)
\* the visibility a response made with kwargs is to have
Visibility(kwargs) == IF "in_channel" \in kwargs THEN "in_channel" ELSE "ephemeral"

\* C24: as_dict() of a text response and of a rich response has the entry
\* response_type, which is ephemeral, and in_channel for a response made
\* with in_channel=True; making such a response raises nothing
ResponseTypeTagged ==
    /\ last.op = "SlackResponseText.as_dict" =>
           /\ last.result.kind = "ok"
           /\ "response_type" \in DOMAIN last.result.val
           /\ last.result.val.response_type = Visibility(last.kwargs)
    /\ last.op = "SlackResponse" => last.result.kind = "ok"
    /\ last.op = "SlackResponse.as_dict" =>
           /\ "response_type" \in DOMAIN last.result
           /\ last.result.response_type \in {"ephemeral", "in_channel"}

\* what a call gives as a list: nothing, the one object, the list written
\* out, or what the list object holds when the call is made
Given(h, arg) ==
    IF arg.kind = "None" THEN <<>>
    ELSE IF arg.kind = "object" THEN <<arg.val>>
    ELSE IF arg.kind = "literal" THEN arg.val
    ELSE h.lists[arg.id]

Serialized(h, attachments) ==
    [i \in DOMAIN attachments |-> Attachment_as_dict(h, attachments[i])]

\* C25: the attachments of as_dict() of a response are, after the
\* constructor, the serialized attachments it was given, one attachment
\* counting as the list of it, and after add those of before followed by the
\* serialized attachments given to add
AttachmentsInCallOrder ==
    [][/\ (last'.op = "SlackResponse" /\ last'.result.kind = "ok") =>
              SlackResponse_as_dict(heap', last'.r).attachments
                  = Serialized(heap', Given(heap, last'.attachments))
       /\ last'.op = "SlackResponse.add" =>
              SlackResponse_as_dict(heap', last'.r).attachments
                  = SlackResponse_as_dict(heap, last'.r).attachments
                        \o Serialized(heap, Given(heap, last'.attachments))
       /\ last'.op = "SlackResponse.as_dict" =>
              last'.result.attachments
                  = Serialized(heap, heap.lists[heap.responses[last'.r].attachments])]_vars

\* a response made from one attachment, then given a list of two, one by one
AttachmentsInCallOrderWitness ==
    /\ last.op = "SlackResponse.as_dict"
    /\ last.result.attachments =
           <<[fallback |-> "Attachment 1"], [fallback |-> "Attachment 2"],
             [fallback |-> "Attachment 1"]>>

\* the fields of the components cs
FieldsOf(cs) == UNION {DOMAIN Component_as_dict(cs[i]) : i \in DOMAIN cs}

\* the last of the components cs that has field k
LastWith(cs, k) ==
    cs[CHOOSE i \in DOMAIN cs :
           /\ k \in DOMAIN Component_as_dict(cs[i])
           /\ \A j \in (i + 1)..Len(cs) : k \notin DOMAIN Component_as_dict(cs[j])]

\* C26: the components of an attachment are those it was made from followed
\* by those it was given, in that order; as_dict() has the fallback and every
\* field of every component, with the value of the last component that has
\* the field
ComponentsMergeInOrder ==
    [][/\ last'.op = "Attachment" =>
              heap'.lists[heap'.attachments[last'.a].components]
                  = Given(heap, last'.components)
       /\ last'.op = "Attachment.add" =>
              heap'.lists[heap'.attachments[last'.a].components]
                  = heap.lists[heap.attachments[last'.a].components]
                        \o Given(heap, last'.components)
       /\ last'.op = "Attachment.as_dict" =>
              LET cs == heap.lists[heap.attachments[last'.a].components] IN
              /\ DOMAIN last'.result = {"fallback"} \cup FieldsOf(cs)
              /\ last'.result.fallback = heap.attachments[last'.a].fallback
              /\ \A k \in FieldsOf(cs) :
                     last'.result[k] = Component_as_dict(LastWith(cs, k))[k]]_vars

\* two Text components with a Title between them: the later text is serialized
ComponentsMergeInOrderWitness ==
    /\ last.op = "Attachment.as_dict"
    /\ heap.lists[heap.attachments[last.a].components]
           = <<Text("mytext", "pretext"), Title("title", "link"), Text("other", None)>>
    /\ last.result.text = "other"
    /\ last.result.pretext = ""
    /\ last.result.title = "title"

(***************************************************************************)
(* Properties of the conversion of slack_augment                           *)
(***************************************************************************)
\* C27: the response to an admitted request is, when the function returns a
\* Slack response object, the JSON response with status 200 and its as_dict()
\* as body, and else what the function returns, as it is
OnlySlackResponsesConverted ==
    (/\ last.op = "request"
     /\ last.request.method = "POST"
     /\ Admissible(SLACK_ACCESS, last.request.data)) =>
        \E returned \in {Call(last.function, last.request)} :
            IF returned.kind \in {"SlackResponseText", "SlackResponse"}
            THEN last.response = [kind |-> "JsonResponse", status |-> 200,
                                  content |-> [text |-> returned.response_text]]
            ELSE last.response = returned

\* an admitted request to _function_hello_world_response got the JSON response
OnlySlackResponsesConvertedWitness ==
    /\ last.op = "request"
    /\ last.called
    /\ last.function = "_function_hello_world_response"
    /\ last.response = [kind |-> "JsonResponse", status |-> 200,
                        content |-> [text |-> "Hello World"]]

(***************************************************************************)
(* Properties of the parent chain                                          *)
(***************************************************************************)
\* the namespaces above ns, nearest first: what is left of ns before each
\* occurrence of the default separator
RECURSIVE Ancestors(_)
Ancestors(ns) ==
    LET occ == Occurrences(ns, DefaultSeparator) IN
    IF occ = {} THEN <<>>
    ELSE LET above == SubSeq(ns, 1, (CHOOSE i \in occ : \A j \in occ : j <= i) - 1)
         IN <<above>> \o Ancestors(above)

\* C28: a get with a separator that may create leaves a record of the
\* namespace and of each of its ancestors and returns the segment whose
\* parent chain is these ancestors, nearest first; a get with a separator
\* that may not create raises DoesNotExist when the namespace has a record
\* and one of its ancestors has none
AncestorsFollowPolicy ==
    [][(/\ last'.op = "kvs_get"
        /\ last'.hierarchy_separator = TrueStr)
          => \E chain \in {<<Addressed(last'.namespace)>>
                               \o Ancestors(Addressed(last'.namespace))} :
                IF last'.create_if_not_exist
                THEN /\ last'.result = Ok(chain)
                     /\ kvs' = chain
                     /\ segments' = segments \cup Range(chain)
                ELSE /\ Range(chain) \subseteq segments
                         => last'.result = Ok(chain) /\ kvs' = chain
                     /\ (/\ chain[1] \in segments
                         /\ ~(Range(chain) \subseteq segments))
                         => last'.result = Raise("DoesNotExist")]_vars

\* a get that may not create raised for a namespace that has a record,
\* its parent having one and the parent of its parent none
AncestorsFollowPolicyWitness ==
    /\ last.op = "kvs_get"
    /\ last.hierarchy_separator = TrueStr
    /\ ~last.create_if_not_exist
    /\ last.namespace = NsSlackTokenA
    /\ last.result = Raise("DoesNotExist")
    /\ NsSlackTokenA \in segments
    /\ NsSlackToken \in segments
    /\ NsSlack \notin segments

\* C30: the segment a get without separator returns has no parent, whatever
\* was got before and whatever records exist, and on a segment without
\* parent read, contains, length, iteration and snapshot see the rows of its
\* own namespace only: the read of a key that has no row there raises KeyError
LinkageIsPerAccess ==
    [][/\ (/\ last'.op = "kvs_get"
           /\ last'.hierarchy_separator = NoneStr
           /\ last'.result.kind = "ok")
              => /\ last'.result.val = <<Addressed(last'.namespace)>>
                 /\ kvs' = <<Addressed(last'.namespace)>>
       /\ Len(kvs') = 1 =>
             \E rows \in {pairs'[kvs'[1]]} :
             /\ last'.op = "__getitem__" =>
                    IF Held(pairs', kvs'[1], last'.key) = {}
                    THEN last'.result = Raise("KeyError")
                    ELSE /\ last'.result.kind = "ok"
                         /\ Held(pairs', kvs'[1], last'.key) = {last'.result.val}
             /\ last'.op = "__contains__" =>
                    last'.result = Ok(Held(pairs', kvs'[1], last'.key) # {})
             /\ last'.op = "__len__" => last'.result = Ok(Len(rows))
             /\ last'.op = "iterate" =>
                    /\ last'.keys = [i \in DOMAIN rows |-> rows[i].key]
                    /\ last'.values = [i \in DOMAIN rows |-> rows[i].value]
                    /\ last'.items = [i \in DOMAIN rows |-> <<rows[i].key, rows[i].value>>]
                    /\ last'.len = Len(rows)
             /\ last'.op = "as_dict" =>
                    /\ DOMAIN last'.result.val = KeysOf(rows)
                    /\ \A k \in KeysOf(rows) :
                           Held(pairs', kvs'[1], k) = {last'.result.val[k]}]_vars

\* the read of a key raised KeyError on the segment of 'slack::token' that
\* has no parent, the namespace 'slack' having a record and a row of the key
LinkageIsPerAccessWitness ==
    /\ last.op = "__getitem__"
    /\ last.result = Raise("KeyError")
    /\ kvs = <<NsSlackToken>>
    /\ NsSlack \in segments
    /\ Held(pairs, NsSlack, last.key) # {}

(***************************************************************************)
(* Properties of writes made at the same time                              *)
(***************************************************************************)
\* C29: once two processes have returned from writes of one key of one
\* segment, however the steps of the two calls interleaved, the segment has
\* exactly one row of the key, the row holds the value of one of the two
\* writes, and a read of the key on the segment returns that value
ConcurrentWritesKeepKeyUnique ==
    \A t1, t2 \in Procs :
        (/\ t1 # t2
         /\ calls[t1].pc = "idle" /\ calls[t2].pc = "idle"
         /\ DOMAIN calls[t1] = DOMAIN Written(Root, "k1", "T1")
         /\ DOMAIN calls[t2] = DOMAIN Written(Root, "k1", "T1")
         /\ calls[t1].segment = calls[t2].segment
         /\ calls[t1].key = calls[t2].key
         /\ kvs # NoKvs /\ kvs[1] = calls[t1].segment) =>
            \E rows \in {pairs[calls[t1].segment]} :
            /\ Cardinality({i \in DOMAIN rows : rows[i].key = calls[t1].key}) = 1
            /\ Held(pairs, calls[t1].segment, calls[t1].key)
                   \subseteq {calls[t1].value, calls[t2].value}
            /\ __getitem__(pairs, kvs, calls[t1].key).kind = "ok"
            /\ {__getitem__(pairs, kvs, calls[t1].key).val}
                   = Held(pairs, calls[t1].segment, calls[t1].key)

(***************************************************************************)
(* Properties of the height                                                *)
(***************************************************************************)
\* the number of components of namespace that the separator delimits
ComponentsOf(namespace, hierarchy_separator) ==
    IF hierarchy_separator = NoneStr THEN 1
    ELSE 1 + Cardinality(Occurrences(Addressed(namespace), DefaultSeparator))

\* the segments of the chain c that the call op visits: __getitem__ and
\* __contains__ go on with the parent on a miss, the others always
RECURSIVE Visited(_, _, _, _)
Visited(op, p, c, key) ==
    IF Len(c) = 1 THEN 1
    ELSE IF op \in {"__getitem__", "__contains__"} /\ _item(p, c[1], key).kind = "ok"
    THEN 1
    ELSE 1 + Visited(op, p, Tail(c), key)

\* C31: the null store has height 0 and is its own parent, the height of a
\* segment is 1 + that of its parent, the segment a get returns has as its
\* height the number of components of the namespace that the separator
\* delimits (1 without separator), and a read, contains, length or snapshot
\* on the held segment visits at most height segments
HeightBoundsWalk ==
    /\ height(<<>>) = 0
    /\ parent(<<>>) = <<>>
    /\ kvs # NoKvs =>
           /\ height(kvs) = 1 + height(parent(kvs))
           /\ height(kvs) = Len(kvs)
    /\ (last.op = "kvs_get" /\ last.result.kind = "ok") =>
           height(last.result.val)
               = ComponentsOf(last.namespace, last.hierarchy_separator)
    /\ (last.op \in {"__getitem__", "__contains__"} /\ kvs # NoKvs) =>
           Visited(last.op, pairs, kvs, last.key) <= height(kvs)
    /\ (last.op \in {"__len__", "as_dict"} /\ kvs # NoKvs) =>
           Visited(last.op, pairs, kvs, "k1") <= height(kvs)

\* a read on the segment of 'slack::token::a', of height 3, found the key in
\* no segment
HeightBoundsWalkWitness ==
    /\ last.op = "__getitem__"
    /\ last.result = Raise("KeyError")
    /\ kvs = <<NsSlackTokenA, NsSlackToken, NsSlack>>
    /\ height(kvs) = 3
    /\ Visited(last.op, pairs, kvs, last.key) = 3

(***************************************************************************)
(* Properties of parent_namespace                                          *)
(***************************************************************************)
\* C32: parent_namespace returns None exactly when the separator does not
\* occur in the namespace, and else what the namespace has before the last
\* occurrence of the separator: 'a::b' for 'a::b::c', None for 'a' and the
\* root namespace '' for '::a'
ParentStripsLastComponent ==
    last.op = "parent_namespace" =>
        \E n \in {last.namespace}, sep \in {last.hierarchy_separator} :
        /\ last.result = NoneStr
               <=> \A i \in 1..(Len(n) - Len(sep) + 1) : SubSeq(n, i, i + Len(sep) - 1) # sep
        /\ last.result # NoneStr =>
               \E i \in 1..(Len(n) - Len(sep) + 1) :
                   /\ SubSeq(n, i, i + Len(sep) - 1) = sep
                   /\ \A j \in (i + 1)..(Len(n) - Len(sep) + 1) : SubSeq(n, j, j + Len(sep) - 1) # sep
                   /\ last.result = SubSeq(n, 1, i - 1)
        /\ (n = abc /\ sep = DefaultSeparator) => last.result = <<"a", ":", ":", "b">>
        /\ (n = <<"a">> /\ sep = DefaultSeparator) => last.result = NoneStr
        /\ (n = <<":", ":", "a">> /\ sep = DefaultSeparator) => last.result = Root

\* the parent of 'a::b::c' was asked for and is 'a::b'
ParentStripsLastComponentWitness ==
    /\ last.op = "parent_namespace"
    /\ last.namespace = abc
    /\ last.hierarchy_separator = DefaultSeparator
    /\ last.result = <<"a", ":", ":", "b">>

(***************************************************************************)
(* Properties of the read operations                                       *)
(***************************************************************************)
\* C33: in every state and for every key, on the held segment: contains is
\* True exactly when the read returns a value, get returns what read returns
\* when contains is True and the default otherwise, and a key that has a row
\* in the segment or in a linked ancestor, be its value empty or None, is
\* read and not reported missing
ReadsAgree ==
    kvs # NoKvs =>
        \A k \in Keys :
        \E read \in {__getitem__(pairs, kvs, k)}, contains \in {__contains__(pairs, kvs, k)} :
        /\ contains = Ok(TRUE) <=> read.kind = "ok"
        /\ \A d \in Defaults :
               get(pairs, kvs, k, d) = IF contains = Ok(TRUE) THEN read.val ELSE d
        /\ Holders(pairs, kvs, k) # {} => read.kind = "ok"

(***************************************************************************)
(* Properties of the split of the command text                             *)
(***************************************************************************)
\* the text after the letters and the whole run of other characters that
\* follows them
RECURSIVE SkipRun(_)
SkipRun(str) ==
    IF str = <<>> \/ str[1] \in Alpha THEN str ELSE SkipRun(Tail(str))

AfterRun(str) == SkipRun(SubSeq(str, Len(LeadingLetters(str)) + 1, Len(str)))

\* C34: dispatch takes the leading letters of the text as the subcommand and
\* what follows the whole run of other characters after them as the
\* remainder, and the positional arguments the parser gives for the
\* remainder have no empty string among them
SplitsOnFirstRun ==
    /\ last.op = "dispatch" =>
           /\ last.subcommand = LeadingLetters(text)
           /\ last.remainder = AfterRun(text)
    /\ (last.op = "parser.run" /\ last.result.kind = "ok" /\ ~last.result.val.error) =>
           \A i \in DOMAIN last.result.val.posn : last.result.val.posn[i] # <<>>

(***************************************************************************)
(* Properties of dispatches of several requests                            *)
(***************************************************************************)
\* the process has handled a request
Handled(c) == c.pc = "idle" /\ "text" \in DOMAIN c

\* C35: the parser a dispatch starts with has no option and no positional;
\* the response to a request is that of the dispatch of its text alone,
\* whatever requests were handled before or are handled by another process,
\* so that the same text gets the same response; and the parser has
\* afterwards the options of its own handler only
DispatchesIndependent ==
    \A t \in Procs :
        /\ calls[t].pc = "run" =>
               calls[t].parser.options = {} /\ calls[t].parser.posn = 0
        /\ Handled(calls[t]) =>
               /\ calls[t].result = dispatch(calls[t].text).result
               /\ calls[t].parser.options \subseteq DeclaredBy(calls[t].method)
               /\ calls[t].parser.posn <= 1
               /\ \A u \in Procs :
                      (Handled(calls[u]) /\ calls[u].text = calls[t].text)
                          => calls[u].result = calls[t].result

\* one process has handled 'e -u e', whose handler declares the option -u,
\* and another 'echob -u', for whose parser -u is no option
DispatchesIndependentWitness ==
    \E t, u \in Procs :
        /\ Handled(calls[t]) /\ Handled(calls[u])
        /\ calls[t].text = <<"e", " ", "-", "u", " ", "e">>
        /\ calls[t].result = Ok(SlackResponseText(<<"you said: ", "E">>))
        /\ calls[t].parser.options = {CountOption}
        /\ calls[u].method = "run_echob"
        /\ calls[u].parser.options = {}
        /\ calls[u].result = Raise("AttributeError")

(***************************************************************************)
(* Properties of the fields of the payload                                 *)
(***************************************************************************)
\* C36: the view called with an admitted request whose payload has no text
\* raises the KeyError of the field access: it returns neither the 403
\* response nor the response to an empty text; and slack_tid of an admitted
\* request without team_id raises KeyError as well
MissingFieldPropagates ==
    (/\ last.op = "view"
     /\ last.request.method = "POST"
     /\ Admissible(SLACK_ACCESS, last.request.data)) =>
        /\ last.request.data.text = MissingText => last.result = Raise("KeyError")
        /\ last.request.data.text # MissingText => last.result # Raise("KeyError")
        /\ last.request.data.team_id = Missing =>
               slack_tid(last.request) = Raise("KeyError")

\* a request with a token that admits every team and no text was answered
\* with KeyError
MissingFieldPropagatesWitness ==
    /\ last.op = "view"
    /\ last.request.method = "POST"
    /\ last.request.data.token = "k2"
    /\ SLACK_ACCESS["k2"] = PyTrue
    /\ last.request.data.text = MissingText
    /\ last.result = Raise("KeyError")

(***************************************************************************)
(* Properties of the attribute a command text reaches                      *)
(***************************************************************************)
\* C37: whatever the command text, dispatch calls unknown_command or the
\* method bound to an attribute 'run_' + name, where name is the lower-cased
\* subcommand, is not empty and holds lower-case ASCII letters only; it never
\* calls another attribute of the view
TextReachesOnlyHandlers ==
    last.op = "dispatch" =>
        \/ last.method = "unknown_command"
        \/ /\ last.method \notin {o[2] : o \in OtherAttributes}
           /\ \E a \in RunAttributes :
                /\ a[2] = last.method
                /\ a[1] = [i \in DOMAIN last.subcommand |-> lower(last.subcommand[i])]
                /\ a[1] # <<>>
                /\ \A i \in DOMAIN a[1] : a[1][i] \in ascii_lowercase

\* a text that begins with the name of another attribute of the view has
\* been dispatched, and one that names a handler has been
TextReachesOnlyHandlersWitness ==
    /\ last.op = "dispatch"
    /\ \E o \in OtherAttributes : StartsWith(text, o[1])
    /\ last.subcommand \in {<<"p", "a", "r", "s", "e">>, <<"a", "s">>, <<>>}
    /\ last.method = "unknown_command"

(***************************************************************************)
(* Properties of objects made from the same list                           *)
(***************************************************************************)
\* C38: add on one response never changes what as_dict of another response
\* returns, and add on one attachment never changes what as_dict of another
\* attachment returns, whether the objects were made without a list or from
\* the same list of the caller
ObjectsShareNoState ==
    [][/\ last'.op = "SlackResponse.add" =>
            \A r \in DOMAIN heap.responses \ {last'.r} :
                SlackResponse_as_dict(heap', r) = SlackResponse_as_dict(heap, r)
       /\ last'.op = "Attachment.add" =>
            \A a \in DOMAIN heap.attachments \ {last'.a} :
                Attachment_as_dict(heap', a) = Attachment_as_dict(heap, a)]_vars

\* the same for objects that hold different lists
UnsharedObjectsShareNoState ==
    [][/\ last'.op = "SlackResponse.add" =>
            \A r \in DOMAIN heap.responses \ {last'.r} :
                heap.responses[r].attachments # heap.responses[last'.r].attachments
                    => SlackResponse_as_dict(heap', r) = SlackResponse_as_dict(heap, r)
       /\ last'.op = "Attachment.add" =>
            \A a \in DOMAIN heap.attachments \ {last'.a} :
                heap.attachments[a].components # heap.attachments[last'.a].components
                    => Attachment_as_dict(heap', a) = Attachment_as_dict(heap, a)]_vars

(***************************************************************************)
(* Properties of the read operations of a segment                          *)
(***************************************************************************)
ReadOperations == {"__getitem__", "get", "__contains__", "__len__", "iterate", "as_dict"}

\* C39: __getitem__, get, __contains__, __len__, keys, values, items and
\* as_dict of a segment, for a key that is found and for one that is not,
\* leave the records of the namespaces, the rows of every namespace and
\* the held object as they are
ReadsChangeNothing ==
    [][last'.op \in ReadOperations
          => UNCHANGED <<segments, pairs, kvs, table>>]_vars

\* get has answered with its default for a key that no segment of the
\* chain holds, while the segment and another namespace hold rows
ReadsChangeNothingWitness ==
    /\ last.op = "get"
    /\ kvs # NoKvs
    /\ Holders(pairs, kvs, last.key) = {}
    /\ last.result = Ok(None)
    /\ pairs[kvs[1]] # <<>>
    /\ \E n \in segments \ Range(kvs) : pairs[n] # <<>>
====
